---- MODULE Spec2Model ----
(***************************************************************************)
(* A model of orch's process supervisor and control channel                *)
(* (contrib/orch/lib/core): the parent-side process handle                 *)
(* (struct orch_process), both endpoints of the IPC channel                *)
(* (struct orch_ipc), the child from fork to exec and exit, and the pty.   *)
(*                                                                         *)
(* Abstractions.  A message on the wire is a sequence of words: the two    *)
(* header words (size, tag) followed by the payload words.  A struct       *)
(* termios is five words (c_iflag, c_oflag, c_cflag, c_lflag and the c_cc  *)
(* table as one word), each word abstracted to one bit.  A descriptor      *)
(* field is "open" or "closed" ("closed" stands for the value -1).  Time   *)
(* is abstracted: the alarm of close() may fire at any moment the parent   *)
(* is blocked in waitpid() with the alarm armed.                           *)
(***************************************************************************)
EXTENDS Integers, Sequences, FiniteSets, TLC

\* enum orch_ipc_tag
IPC_NOXMIT == 0
IPC_RELEASE == 1
IPC_ERROR == 2
IPC_TERMIOS_INQUIRY == 3
IPC_TERMIOS_SET == 4
IPC_TERMIOS_ACK == 5
IPC_LAST == 6

Tags == (IPC_NOXMIT + 1)..(IPC_LAST - 1)

\* sizeof(struct orch_ipc_header), in words: size, tag
HdrSize == 2
\* sizeof(struct termios), in words
TermiosSize == 5

\* Bounds of the model
MaxUpdates == 1
\* times a script repeats an update() that failed
MaxRetries == 1
MaxPayload == 2
MaxChunk == 2
MaxSends == 1
MaxMsgs == 2

FlagVals == 0..1

Termios == [iflag : FlagVals, oflag : FlagVals, cflag : FlagVals,
            lflag : FlagVals, cc : FlagVals]

\* The attributes the pty slave may have when the child opens it.
PtyInitAttrs ==
    { [iflag |-> 0, oflag |-> 0, cflag |-> 0, lflag |-> 1, cc |-> 0],
      [iflag |-> 1, oflag |-> 1, cflag |-> 1, lflag |-> 0, cc |-> 1] }

NoTermios == [iflag |-> -1, oflag |-> -1, cflag |-> -1, lflag |-> -1, cc |-> -1]

\* memcpy() of a struct termios into / out of a payload
TermiosWords_Swapped(t) == <<t.lflag, t.oflag, t.cflag, t.iflag, t.cc>>

TermiosWords(t) == <<t.iflag, t.oflag, t.cflag, t.lflag, t.cc>>

WordsTermios(w) ==
    [iflag |-> w[1], oflag |-> w[2], cflag |-> w[3], lflag |-> w[4], cc |-> w[5]]

\* A message in memory: struct orch_ipc_msg
Msg(tag, data) == [tag |-> tag, data |-> data]

\* The NULL message pointer
NullMsg == [tag |-> IPC_NOXMIT, data |-> <<>>]

\* IPC_MSG_HDR_SIZE(payloadsz) and the header orch_ipc_msg_alloc() builds
MsgHdr_BadSize(m) == <<Len(m.data), m.tag>>

MsgHdr(m) == <<HdrSize + Len(m.data), m.tag>>

\* IPC_MSG_PAYLOAD_SIZE(msg)
PayloadSize(size) == size - HdrSize

\* What orch_ipc_send() writes: the header, then the payload
Wire(m) == MsgHdr(m) \o m.data

\* struct orch_ipc after orch_ipc_open(): no handler, empty queue
NoCallbacks == [t \in Tags |-> "none"]

IpcOpen == [sockfd |-> "open", q |-> <<>>, cb |-> NoCallbacks]

\* orch_ipc_okay()
IpcOkay(ipc) == ipc.sockfd = "open"

\* orch_ipc_register()
Register(ipc, tag, handler) == [ipc EXCEPT !.cb[tag] = handler]

\* orch_ipc_register(), line 364: what the call returns
RegisterRc(ipc, tag, handler) == 0

\* orch_ipc_drain(), line 207: the check of a header just read
HdrValid(size, tag) == ~(size < HdrSize \/ tag = IPC_NOXMIT)

\* orch_ipc_drain(), lines 256-261: the message is linked at the tail
Enqueue_AtHead(q, m) == <<m>> \o q

Enqueue(q, m) == Append(q, m)

\* The loop of orch_ipc_drain() over the words `s` readable on the socket;
\* `peerShut` says that the peer closed its write side, so that a read at
\* the end of `s` returns 0 rather than EAGAIN.
RECURSIVE DrainLoop(_, _, _)
DrainLoop(s, q, peerShut) ==
    IF Len(s) = 0
    THEN [q |-> q, s |-> s, rc |-> 0, eof |-> peerShut]
    ELSE IF Len(s) < HdrSize
    THEN [q |-> q, s |-> <<>>, rc |-> -1, eof |-> FALSE]
    ELSE IF ~HdrValid(s[1], s[2])
    THEN [q |-> q, s |-> SubSeq(s, HdrSize + 1, Len(s)), rc |-> -1, eof |-> FALSE]
    ELSE IF Len(s) < s[1]
    THEN \* payload cut short: read() returns 0 once the peer is gone
         [q |-> q, s |-> <<>>, rc |-> 0, eof |-> TRUE]
    ELSE DrainLoop(SubSeq(s, s[1] + 1, Len(s)),
                   Enqueue(q, Msg(s[2], SubSeq(s, HdrSize + 1,
                                               HdrSize + PayloadSize(s[1])))),
                   peerShut)

Drain_DropAtEof(ipc, s, peerShut) ==
    IF ~IpcOkay(ipc)
    THEN [ipc |-> ipc, s |-> s, rc |-> 0, closed |-> FALSE]
    ELSE LET r == DrainLoop(s, ipc.q, peerShut)
         IN  [ipc |-> [ipc EXCEPT !.q = IF r.eof THEN ipc.q ELSE r.q,
                                  !.sockfd = IF r.eof THEN "closed" ELSE @],
              s |-> r.s, rc |-> r.rc, closed |-> r.eof]

\* orch_ipc_drain(): the channel, what is left on the socket, the result,
\* and whether the descriptor was closed at end-of-file
Drain(ipc, s, peerShut) ==
    IF ~IpcOkay(ipc)
    THEN [ipc |-> ipc, s |-> s, rc |-> 0, closed |-> FALSE]
    ELSE LET r == DrainLoop(s, ipc.q, peerShut)
         IN  [ipc |-> [ipc EXCEPT !.q = r.q,
                                  !.sockfd = IF r.eof THEN "closed" ELSE @],
              s |-> r.s, rc |-> r.rc, closed |-> r.eof]

\* orch_ipc_send(): drain, then write the header and the payload to `out`.
\* A write on a descriptor of -1 fails.
Send(ipc, in, peerShut, out, m) ==
    LET d == Drain(ipc, in, peerShut)
    IN  IF d.rc # 0 \/ ~IpcOkay(d.ipc)
        THEN [ipc |-> d.ipc, in |-> d.s, out |-> out, rc |-> -1,
              closed |-> d.closed, sent |-> <<>>]
        ELSE [ipc |-> d.ipc, in |-> d.s, out |-> out \o Wire(m), rc |-> 0,
              closed |-> d.closed, sent |-> <<m>>]

\* orch_ipc_wait() returns: a queued message, a closed descriptor, or
\* select() reporting the socket readable (data or end-of-file)
WaitReady(ipc, in, peerShut) ==
    \/ ipc.q # <<>>
    \/ ~IpcOkay(ipc)
    \/ in # <<>>
    \/ peerShut

VARIABLES
    proc,      \* struct orch_process: pid, ipc, termctl, released, eof, error, term
    pipc,      \* the parent's struct orch_ipc
    cipc,      \* the child's struct orch_ipc
    p2c,       \* words written by the parent, not yet read by the child
    c2p,       \* words written by the child, not yet read by the parent
    pShut,     \* the parent's end no longer writes (shutdown, close or exit)
    cShut,     \* the child's end no longer writes
    ppc,       \* where the parent is
    cpc,       \* where the child is
    ct,        \* the child's struct termios t
    ptyattr,   \* the attributes of the pty slave
    slave,     \* the child's pty slave: "never" opened, "open", "closed"
    cstat,     \* the child's wait status
    csig,      \* the signal pending for the child
    cerr,      \* the child's result of orch_wait()
    loc,       \* locals of the parent's current call
    ret,       \* what the parent's last call returned
    hist,      \* history: what has happened so far
    wire       \* the channel pair of the wire-level specification

vars == <<proc, pipc, cipc, p2c, c2p, pShut, cShut, ppc, cpc, ct, ptyattr,
          slave, cstat, csig, cerr, loc, ret, hist, wire>>

\* What a read on the child's endpoint sees of the parent's: end-of-file
\* once the parent has shut its write side down, closed its descriptor or
\* exited; and the same of the child's endpoint, seen from the parent's
PeerEof_CloseOnly(shut, ipc) == ~IpcOkay(ipc)

\* orch_ipc_close(), line 75: shutdown(SHUT_WR) gives the peer its
\* end-of-file while the descriptor is still open for reading
PeerEof(shut, ipc) == shut \/ ~IpcOkay(ipc)

ParentEof == PeerEof(pShut, pipc)

ChildEof == PeerEof(cShut, cipc)

pvars == <<proc, pipc, ppc, loc, ret>>
cvars == <<cipc, cpc, ct, ptyattr, slave, cstat, csig, cerr>>

ChildPid == 1

NoStatus == [sig |-> "none", code |-> 0]

\* WIFSIGNALED()
WIFSIGNALED(st) == st.sig # "none"

\* What a call returned, with what happened during it: esc, SIGKILL was
\* sent; nsig, the number of signals sent; prior, a close() had returned
\* before; normal / zsig, at the start of the call the child was waitable
\* after a normal exit / after being terminated by a signal; eof, read()
\* saw end-of-file; field, val, old, sent: the field and the value an
\* update() was called with, the snapshot of the handle before the call
\* and the snapshot placed in the message
NoRet == [op |-> "none", ok |-> TRUE, why |-> "", esc |-> FALSE, nsig |-> 0,
          prior |-> FALSE, normal |-> FALSE, zsig |-> FALSE, eof |-> FALSE,
          field |-> "none", val |-> 0, old |-> NoTermios, sent |-> NoTermios]

NoLoc == [failed |-> FALSE, sig |-> "none", alarm |-> FALSE, error |-> 0,
          esc |-> FALSE, nsig |-> 0, prior |-> FALSE, normal |-> FALSE,
          zsig |-> FALSE, field |-> "none", val |-> 0, old |-> NoTermios,
          sent |-> NoTermios]

\* The wire-level channel: one endpoint sends, the other receives.
\* sent: the messages passed to orch_ipc_send(); tx: the payload words of
\* the current message not yet written; stream: the words on the socket;
\* rx, hdr, data, resid: where orch_ipc_drain() is, the header it read, the
\* payload read so far and what is left to read; q: the receive queue;
\* qh, gh: the header each message of q and of got carries (msg->hdr);
\* got: the messages orch_ipc_recv() has returned; rc: its last result;
\* ipc: the receiving Channel's handler table; reg: the last call of
\* orch_ipc_register() on it, with the handler it found and its result;
\* sys: one operation followed system call by system call; shut: the
\* sending end is gone, whatever it had left to write is never written
SysIdle == [op |-> "none", pc |-> "idle", fd |-> "open", resid |-> 0,
            queued |-> 0, rc |-> 0, errno |-> "none", again |-> FALSE,
            intr |-> FALSE, eof |-> FALSE]

\* A Lua value: nil, a boolean, a number, or a string (its bytes)
LuaNil == [type |-> "nil", n |-> 0, s |-> <<>>]

LuaBoolean == [type |-> "boolean", n |-> 0, s |-> <<>>]

LuaNumber(n) == [type |-> "number", n |-> n, s |-> <<>>]

LuaString(s) == [type |-> "string", n |-> 0, s |-> s]

\* The terminal handle before term() has made it: no snapshot
TtyIdle == [pc |-> "none", vdisable |-> 0, slot |-> "none", cc |-> 0,
            fetched |-> LuaNil, fcc |-> 0, rc |-> 0, rt |-> FALSE,
            before |-> 0]

\* The two endpoints of the socketpair, each in no operation
Ends == {"parent", "child"}

DxIdle == [pc |-> [e \in Ends |-> "idle"], op |-> [e \in Ends |-> "none"],
           len |-> [e \in Ends |-> 0], dres |-> [e \in Ends |-> 0],
           in |-> [e \in Ends |-> <<>>], sends |-> [e \in Ends |-> 0],
           rc |-> [e \in Ends |-> 0], q |-> [e \in Ends |-> 0],
           again |-> [e \in Ends |-> FALSE]]

\* No call of the channel made yet; of a call: the queue after its drain,
\* the handlers, the messages it took off the queue, the message it handed
\* back and its result; freed: "no", or what became of the read of
\* ipc->head made after a handler had freed the Channel
\* Of an orch_ipc_wait(ipc, &eof_seen): whether the descriptor was closed,
\* *eof_seen before and after the call, and whether select() was called
NoWait == [closed |-> FALSE, eof0 |-> FALSE, eof |-> FALSE, select |-> FALSE]

NoCall == [op |-> "none", q0 |-> <<>>, cb |-> NoCallbacks, taken |-> <<>>,
           msg |-> NullMsg, rc |-> 0, abort |-> FALSE, wt |-> NoWait,
           freed |-> "no"]

WireIdle == [sent |-> <<>>, sending |-> FALSE, tx |-> <<>>, stream |-> <<>>,
             shut |-> FALSE,
             rx |-> "idle", hdr |-> <<>>, data |-> <<>>, resid |-> 0,
             q |-> <<>>, qh |-> <<>>, got |-> <<>>, gh |-> <<>>, rc |-> 0, ipc |-> IpcOpen,
             reg |-> [tag |-> IPC_NOXMIT, prev |-> "none", new |-> "none",
                      rc |-> 0],
             sys |-> SysIdle, tty |-> TtyIdle, dx |-> DxIdle,
             call |-> NoCall]

\* The state right after fork() in orch_spawn(): the parent has opened its
\* endpoint and registered the error handler and enters orch_wait(); the
\* child has opened its endpoint and is about to call orch_newsess().
Init ==
    /\ proc = [pid |-> ChildPid, ipc |-> "ipc", termctl |-> "open",
               released |-> FALSE, eof |-> FALSE, error |-> FALSE,
               term |-> NoTermios]
    /\ pipc = Register(IpcOpen, IPC_ERROR, "child_error")
    /\ cipc = IpcOpen
    /\ p2c = <<>>
    /\ c2p = <<>>
    /\ pShut = FALSE
    /\ cShut = FALSE
    /\ ppc = "spawn_wait"
    /\ cpc = "newsess"
    /\ ct = NoTermios
    /\ ptyattr \in PtyInitAttrs
    /\ slave = "never"
    /\ cstat = NoStatus
    /\ csig = "none"
    /\ cerr = 0
    /\ loc = NoLoc
    /\ ret = NoRet
    /\ hist = [gotRelease |-> FALSE, spawnRet |-> "none", cGotRelease |-> FALSE,
               cExec |-> FALSE, relSent |-> FALSE, relWaiting |-> FALSE,
               errSent |-> FALSE, violation |-> FALSE, reqDone |-> 0,
               pTx |-> <<>>, pRx |-> <<>>, cTx |-> <<>>,
               cRx |-> <<>>, sigint |-> 0, sigkill |-> 0,
               termCloses |-> 0, ipcFrees |-> 0, sockCloses |-> 0,
               closed |-> FALSE, updates |-> 0, captured |-> NoTermios,
               fault |-> "none", usedClosed |-> FALSE]
    /\ wire = WireIdle


\* orch_wait(), lines 158-161: what the loop does with the message that
\* orch_ipc_recv() handed back
OrchWaitNext(msg) ==
    IF msg = NullMsg THEN "continue"
    ELSE IF msg.tag = IPC_RELEASE THEN "stop" ELSE "continue"

(***************************************************************************)
(* The child                                                               *)
(***************************************************************************)

\* The process ends: the kernel closes its descriptors (the pty slave and
\* the socket) before the exit becomes visible to waitpid().
ChildDies(st) ==
    /\ cpc' = "exiting"
    /\ cstat' = st
    /\ slave' = IF slave = "open" THEN "closed" ELSE slave
    /\ cShut' = TRUE
    /\ csig' = "none"

ExitStatus_Zero(code) == [sig |-> "none", code |-> 0]

ExitStatus(code) == [sig |-> "none", code |-> code]

SigStatus(sig) == [sig |-> sig, code |-> 0]

\* History: the message a send of the child wrote, the message a pop of
\* the child took off its queue
CSent(h, r) == [h EXCEPT !.cTx = @ \o r.sent]

CPopped(h, m) == [h EXCEPT !.cRx = Append(@, m)]

\* orch_newsess(): setsid() succeeds, or fails and orch_child_error() runs
ChildNewsess ==
    /\ cpc = "newsess"
    /\ cpc' \in {"usept", "err_send"}
    /\ UNCHANGED <<cipc, ct, ptyattr, slave, cstat, csig, cerr, p2c, c2p,
                   pShut, cShut, hist, wire>>
    /\ UNCHANGED pvars

\* orch_usept(): ptsname, open, tcsetsid, tcgetattr, dup2; a failure before
\* or after the slave was opened ends in orch_child_error()
ChildUsept ==
    /\ cpc = "usept"
    /\ \E outcome \in {"ok", "open_failed", "tcgetattr_failed"} :
          /\ slave' = IF outcome = "open_failed" THEN slave ELSE "open"
          /\ ct' = IF outcome = "ok" THEN ptyattr ELSE ct
          /\ cpc' = IF outcome = "ok" THEN "exec" ELSE "err_send"
          /\ hist' = IF outcome = "ok"
                     THEN [hist EXCEPT !.captured = ptyattr]
                     ELSE hist
    /\ UNCHANGED <<cipc, ptyattr, cstat, csig, cerr, p2c, c2p, pShut, cShut,
                   wire>>
    /\ UNCHANGED pvars

\* orch_child_error() up to orch_ipc_send(): the result of the send is
\* ignored, orch_ipc_close() and _exit(1) follow
ChildErrorSend ==
    /\ cpc = "err_send"
    /\ LET r == Send(cipc, p2c, ParentEof, c2p, Msg(IPC_ERROR, <<1>>))
       IN  /\ cipc' = r.ipc
           /\ p2c' = r.in
           /\ c2p' = r.out
           /\ hist' = [CSent(hist, r) EXCEPT !.errSent = (r.rc = 0)]
    /\ cerr' = -1
    /\ cpc' = "close_start"
    /\ UNCHANGED <<ct, ptyattr, slave, cstat, csig, pShut, cShut, wire>>
    /\ UNCHANGED pvars

\* orch_exec() up to orch_release(): SIGINT back to its default, the two
\* handlers registered, RELEASE sent
ChildExecStart ==
    /\ cpc = "exec"
    /\ LET reg == Register(Register(cipc, IPC_TERMIOS_INQUIRY, "inquiry"),
                           IPC_TERMIOS_SET, "set")
           r == Send(reg, p2c, ParentEof, c2p, Msg(IPC_RELEASE, <<>>))
       IN  /\ cipc' = r.ipc
           /\ p2c' = r.in
           /\ c2p' = r.out
           /\ hist' = CSent(hist, r)
           /\ IF r.rc # 0
              THEN ChildDies(ExitStatus(1))
              ELSE /\ cpc' = "wait"
                   /\ UNCHANGED <<slave, cstat, csig, cShut>>
    /\ UNCHANGED <<ct, ptyattr, cerr, pShut, wire>>
    /\ UNCHANGED pvars

\* One turn of the loop of orch_wait() in the child: orch_ipc_wait(), then
\* the drain of orch_ipc_recv()
ChildWait ==
    /\ cpc = "wait"
    /\ WaitReady(cipc, p2c, ParentEof)
    /\ IF cipc.q = <<>> /\ ~IpcOkay(cipc)
       THEN \* eof_seen: the loop stops and orch_wait() returns 0
            /\ cerr' = 0
            /\ cpc' = "close_start"
            /\ UNCHANGED <<cipc, p2c>>
       ELSE LET d == Drain(cipc, p2c, ParentEof)
            IN  /\ cipc' = d.ipc
                /\ p2c' = d.s
                /\ cerr' = IF d.rc # 0 THEN -1 ELSE cerr
                /\ cpc' = IF d.rc # 0 THEN "close_start" ELSE "pop"
    /\ UNCHANGED <<ct, ptyattr, slave, cstat, csig, c2p, pShut, cShut, hist,
                   wire>>
    /\ UNCHANGED pvars

\* tcsetattr() in orch_child_termios_set() may fail
TcsetattrOutcomes == {"ok", "failed"}

TermiosSetNext_AckAnyway(o) == "ack"

\* orch_child_termios_set(), lines 255-258: orch_child_error() if
\* tcsetattr() failed, else TERMIOS_ACK is sent
TermiosSetNext(o) == IF o = "failed" THEN "err_send" ELSE "ack"

\* One turn of the loop of orch_ipc_pop() in the child, called from
\* orch_ipc_recv() in orch_wait(): the handlers are
\* orch_child_termios_inquiry() and orch_child_termios_set()
ChildPop ==
    /\ cpc = "pop"
    /\ IF cipc.q = <<>>
       THEN /\ cpc' = "wait"
            /\ UNCHANGED <<cipc, ct, ptyattr, cerr, p2c, c2p, hist>>
       ELSE LET m == Head(cipc.q)
                rest == [cipc EXCEPT !.q = Tail(cipc.q)]
                h == cipc.cb[m.tag]
                hp == CPopped(hist, m)
            IN  CASE h = "inquiry" ->
                       LET r == Send(rest, p2c, ParentEof, c2p,
                                     Msg(IPC_TERMIOS_SET, TermiosWords(ct)))
                       IN  /\ cipc' = r.ipc
                           /\ p2c' = r.in
                           /\ c2p' = r.out
                           /\ cerr' = IF r.rc # 0 THEN -1 ELSE cerr
                           /\ cpc' = IF r.rc # 0 THEN "close_start" ELSE "pop"
                           /\ hist' = CSent(hp, r)
                           /\ UNCHANGED <<ct, ptyattr>>
                  [] h = "set" /\ Len(m.data) # TermiosSize ->
                       /\ cipc' = rest
                       /\ cerr' = -1
                       /\ cpc' = "close_start"
                       /\ hist' = hp
                       /\ UNCHANGED <<ct, ptyattr, p2c, c2p>>
                  [] h = "set" /\ Len(m.data) = TermiosSize ->
                       \E o \in TcsetattrOutcomes :
                          /\ ct' = WordsTermios(m.data)
                          /\ IF TermiosSetNext(o) = "err_send"
                             THEN /\ cipc' = rest
                                  /\ cpc' = "err_send"
                                  /\ hist' = hp
                                  /\ UNCHANGED <<ptyattr, cerr, p2c, c2p>>
                             ELSE LET r == Send(rest, p2c, ParentEof, c2p,
                                                Msg(IPC_TERMIOS_ACK, <<>>))
                                  IN  /\ ptyattr' = IF o = "ok" THEN ct'
                                                     ELSE ptyattr
                                      /\ cipc' = r.ipc
                                      /\ p2c' = r.in
                                      /\ c2p' = r.out
                                      /\ cerr' = IF r.rc # 0 THEN -1 ELSE cerr
                                      /\ cpc' = IF r.rc # 0 THEN "close_start"
                                                ELSE "pop"
                                      /\ hist' = CSent(hp, r)
                  [] OTHER ->
                       \* no handler: orch_ipc_recv() hands the message back
                       /\ cipc' = rest
                       /\ IF OrchWaitNext(m) = "stop"
                          THEN /\ cerr' = 0
                               /\ cpc' = "close_start"
                               /\ hist' = [hp EXCEPT !.cGotRelease = TRUE]
                          ELSE /\ cpc' = "wait"
                               /\ hist' = hp
                               /\ UNCHANGED cerr
                       /\ UNCHANGED <<ct, ptyattr, p2c, c2p>>
    /\ UNCHANGED <<slave, cstat, csig, pShut, cShut, wire>>
    /\ UNCHANGED pvars

\* orch_ipc_close() in the child, up to shutdown(SHUT_WR)
ChildIpcCloseStart ==
    /\ cpc = "close_start"
    /\ IF IpcOkay(cipc)
       THEN /\ cShut' = TRUE
            /\ cpc' = "close_drain"
       ELSE /\ cpc' = "close_pop"
            /\ UNCHANGED cShut
    /\ UNCHANGED <<cipc, ct, ptyattr, slave, cstat, csig, cerr, p2c, c2p,
                   pShut, hist, wire>>
    /\ UNCHANGED pvars

\* One turn of the loop of orch_ipc_close() in the child: orch_ipc_wait()
\* and orch_ipc_drain(); the loop ends at end-of-file or on an error, and
\* the descriptor is closed if the drain has not closed it
ChildIpcCloseIter ==
    /\ cpc = "close_drain"
    /\ WaitReady(cipc, p2c, ParentEof)
    /\ LET d == Drain(cipc, p2c, ParentEof)
       IN  /\ p2c' = d.s
           /\ IF ~IpcOkay(d.ipc) \/ d.rc # 0
              THEN /\ cipc' = [d.ipc EXCEPT !.sockfd = "closed"]
                   /\ cpc' = "close_pop"
              ELSE /\ cipc' = d.ipc
                   /\ cpc' = "close_drain"
    /\ UNCHANGED <<ct, ptyattr, slave, cstat, csig, cerr, c2p, pShut, cShut,
                   hist, wire>>
    /\ UNCHANGED pvars

\* The last orch_ipc_pop(ipc, NULL) of orch_ipc_close() in the child, the
\* assertion that the queue is empty, and free().  The descriptor is closed
\* by now, so a handler that sends fails, which ends the loop.  If
\* tcsetattr() fails in orch_child_termios_set(), orch_child_error() calls
\* orch_ipc_close() again, which pops the rest of the queue, and _exit(1).
ChildIpcClosePop ==
    /\ cpc = "close_pop"
    /\ IF cipc.q = <<>>
       THEN /\ cpc' = "do_exec"
            /\ UNCHANGED <<cipc, ct, ptyattr, cerr, slave, cstat, csig,
                           cShut>>
       ELSE LET m == Head(cipc.q)
                rest == [cipc EXCEPT !.q = Tail(cipc.q)]
                h == cipc.cb[m.tag]
                tc == h = "set" /\ Len(m.data) = TermiosSize
            IN  IF h = "none"
                THEN /\ cipc' = rest
                     /\ cpc' = "close_pop"
                     /\ UNCHANGED <<ct, ptyattr, cerr, slave, cstat, csig,
                                    cShut>>
                ELSE \E o \in IF tc THEN TcsetattrOutcomes ELSE {"ok"} :
                        /\ cipc' = rest
                        /\ ct' = IF tc THEN WordsTermios(m.data) ELSE ct
                        /\ ptyattr' = IF tc /\ o = "ok"
                                      THEN WordsTermios(m.data) ELSE ptyattr
                        /\ IF tc /\ TermiosSetNext(o) = "err_send"
                           THEN \* orch_child_error(): the second close
                                /\ cerr' = -1
                                /\ cpc' = "close_pop"
                                /\ UNCHANGED <<slave, cstat, csig, cShut>>
                           ELSE \* the handler fails: the loop breaks
                                /\ UNCHANGED cerr
                                /\ IF rest.q = <<>>
                                   THEN /\ cpc' = "do_exec"
                                        /\ UNCHANGED <<slave, cstat, csig,
                                                       cShut>>
                                   ELSE ChildDies(SigStatus("SIGABRT"))
    /\ hist' = IF cipc.q = <<>> THEN hist ELSE CPopped(hist, Head(cipc.q))
    /\ UNCHANGED <<p2c, c2p, pShut, wire>>
    /\ UNCHANGED pvars

\* orch_exec(), lines 292-295: the child goes on to execvp() only if
\* orch_wait() returned 0
OrchExecProceeds_Inverted(error) == error # 0

OrchExecProceeds(error) == error = 0

\* execvp() succeeds or fails
ExecOutcomes == {"ok", "failed"}

\* The end of orch_exec(): _exit(1) after a failed wait, else execvp()
ChildDoExec ==
    /\ cpc = "do_exec"
    /\ IF ~OrchExecProceeds(cerr)
       THEN /\ ChildDies(ExitStatus(1))
            /\ UNCHANGED hist
       ELSE \E o \in ExecOutcomes :
               /\ hist' = [hist EXCEPT !.cExec = TRUE]
               /\ IF o = "ok"
                  THEN /\ cpc' = "running"
                       /\ UNCHANGED <<slave, cstat, csig, cShut>>
                  ELSE ChildDies(ExitStatus(1))
    /\ UNCHANGED <<cipc, ct, ptyattr, cerr, p2c, c2p, pShut, wire>>
    /\ UNCHANGED pvars

\* The target command closes its standard streams
TargetCloseSlave ==
    /\ cpc = "running"
    /\ slave = "open"
    /\ slave' = "closed"
    /\ UNCHANGED <<cipc, cpc, ct, ptyattr, cstat, csig, cerr, p2c, c2p, pShut,
                   cShut, hist, wire>>
    /\ UNCHANGED pvars

\* The target command exits, or is terminated by a signal of its own
TargetEnds ==
    /\ cpc = "running"
    /\ \E st \in {ExitStatus(0), SigStatus("SIGSEGV")} : ChildDies(st)
    /\ UNCHANGED <<cipc, ct, ptyattr, cerr, p2c, c2p, pShut, hist, wire>>
    /\ UNCHANGED pvars

\* What a delivered signal does.  SIGKILL always terminates.  SIGINT
\* terminates a child that has not called exec (orch_exec() resets it to
\* SIG_DFL); the target command may die of it, exit, or ignore it.
SignalEffects(sig, pc) ==
    IF sig = "SIGKILL" THEN {"die"}
    ELSE IF pc = "running" THEN {"die", "exit", "ignore"}
    ELSE {"die"}

ChildSignal ==
    /\ csig # "none"
    /\ cpc \notin {"exiting", "zombie", "reaped"}
    /\ \E e \in SignalEffects(csig, cpc) :
          CASE e = "die" -> ChildDies(SigStatus(csig))
            [] e = "exit" -> ChildDies(ExitStatus(0))
            [] OTHER -> /\ csig' = "none"
                        /\ UNCHANGED <<cpc, cstat, slave, cShut>>
    /\ UNCHANGED <<cipc, ct, ptyattr, cerr, p2c, c2p, pShut, hist, wire>>
    /\ UNCHANGED pvars

\* The exit of the child becomes visible to waitpid()
ChildZombie ==
    /\ cpc = "exiting"
    /\ cpc' = "zombie"
    /\ UNCHANGED <<cipc, ct, ptyattr, slave, cstat, csig, cerr, p2c, c2p,
                   pShut, cShut, hist, wire>>
    /\ UNCHANGED pvars

ChildNext ==
    \/ ChildNewsess
    \/ ChildUsept
    \/ ChildErrorSend
    \/ ChildExecStart
    \/ ChildWait
    \/ ChildPop
    \/ ChildIpcCloseStart
    \/ ChildIpcCloseIter
    \/ ChildIpcClosePop
    \/ ChildDoExec
    \/ TargetCloseSlave
    \/ TargetEnds
    \/ ChildSignal
    \/ ChildZombie


(***************************************************************************)
(* The parent                                                              *)
(***************************************************************************)

ccvars == <<cipc, ct, ptyattr, slave, cstat, cerr>>

Bump(h, closed) == [h EXCEPT !.sockCloses = @ + (IF closed THEN 1 ELSE 0)]

\* History: the message a send of the parent wrote, the messages a receive
\* of the parent or the last pop of orch_ipc_close() took off its queue
PSent(h, r) == [Bump(h, r.closed) EXCEPT !.pTx = @ \o r.sent]

PPopped(h, r) == [h EXCEPT !.pRx = @ \o r.popped]

PRcvd(h, r) == PPopped(Bump(h, r.closed), r)

AfterHandlerFailure_Drop(q) == <<>>

\* orch_ipc_pop(), lines 287-313: the message was unlinked before the
\* handler ran and is freed; the break leaves the rest of the queue
AfterHandlerFailure(q) == Tail(q)

\* orch_ipc_pop() in the parent, whose handlers are orchlua_child_error()
\* (sets the error flag, returns 0) and orchlua_process_term_set() (copies
\* the payload, fails on a payload of the wrong size).  acc carries the
\* error flag and the snapshot the handlers have set so far.  A handler
\* "closes" is one that calls orch_ipc_close() on the Channel and returns
\* 0: the close pops the rest of the queue and frees the Channel, and the
\* loop of the pop that called the handler goes on to read ipc->head.
RECURSIVE ParentPop(_, _, _, _)
ParentPop(q, cb, want, acc) ==
    IF q = <<>>
    THEN [q |-> q, msg |-> NullMsg, rc |-> 0, error |-> acc.error,
          sterm |-> acc.sterm, freed |-> FALSE]
    ELSE LET m == Head(q)
             h == cb[m.tag]
         IN  CASE h = "child_error" ->
                    ParentPop(Tail(q), cb, want, [acc EXCEPT !.error = TRUE])
               [] h = "term_set" ->
                    IF Len(m.data) # TermiosSize
                    THEN [q |-> AfterHandlerFailure(q), msg |-> NullMsg,
                          rc |-> -1,
                          error |-> acc.error, sterm |-> acc.sterm,
                          freed |-> FALSE]
                    ELSE ParentPop(Tail(q), cb, want,
                                   [acc EXCEPT !.sterm = WordsTermios(m.data)])
               [] h = "closes" ->
                    [ParentPop(Tail(q), cb, FALSE, acc) EXCEPT
                        !.freed = TRUE]
               [] OTHER ->
                    IF want
                    THEN [q |-> Tail(q), msg |-> m, rc |-> 0,
                          error |-> acc.error, sterm |-> acc.sterm,
                          freed |-> FALSE]
                    ELSE ParentPop(Tail(q), cb, want, acc)

\* orch_ipc_recv() in the parent: drain, then pop
ParentRecv(want) ==
    LET d == Drain(pipc, c2p, ChildEof)
    IN  IF d.rc # 0
        THEN [ipc |-> d.ipc, s |-> d.s, rc |-> -1, msg |-> NullMsg,
              error |-> proc.error, sterm |-> NoTermios, closed |-> d.closed,
              popped |-> <<>>]
        ELSE LET p == ParentPop(d.ipc.q, d.ipc.cb, want,
                                [error |-> proc.error, sterm |-> NoTermios])
             IN  [ipc |-> [d.ipc EXCEPT !.q = p.q], s |-> d.s, rc |-> p.rc,
                  msg |-> p.msg, error |-> p.error, sterm |-> p.sterm,
                  closed |-> d.closed,
                  popped |-> SubSeq(d.ipc.q, 1, Len(d.ipc.q) - Len(p.q))]

\* The tail of orch_ipc_close(): orch_ipc_pop(ipc, NULL), then free()
IpcFree(ipc, error) ==
    LET p == ParentPop(ipc.q, ipc.cb, FALSE,
                       [error |-> error, sterm |-> NoTermios])
    IN  [ipc |-> [ipc EXCEPT !.q = p.q], error |-> p.error,
         popped |-> SubSeq(ipc.q, 1, Len(ipc.q) - Len(p.q))]

\* The parent is killed: it has dereferenced a null Channel pointer
\* ("ipc"), used a descriptor of -1 in FD_SET() ("termctl"), or failed
\* the assertion of orchlua_process_killed() ("assert")
ParentFault(h, why) ==
    /\ ppc' = "fault"
    /\ pShut' = TRUE
    /\ hist' = [h EXCEPT !.fault = why]

\* orch_wait() in orch_spawn(): one turn of the loop.  orch_spawn() returns
\* when the loop stops, and orchlua_spawn() hands the handle to the script.
SpawnWait ==
    /\ ppc = "spawn_wait"
    /\ WaitReady(pipc, c2p, ChildEof)
    /\ IF pipc.q = <<>> /\ ~IpcOkay(pipc)
       THEN /\ ppc' = "idle"
            /\ hist' = [hist EXCEPT !.spawnRet = "eof"]
            /\ ret' = [NoRet EXCEPT !.op = "spawn"]
            /\ UNCHANGED <<proc, pipc, c2p>>
       ELSE LET r == ParentRecv(TRUE)
                h == PRcvd(hist, r)
            IN  /\ pipc' = r.ipc
                /\ c2p' = r.s
                /\ proc' = [proc EXCEPT !.error = r.error]
                /\ IF r.rc # 0
                   THEN /\ ppc' = "idle"
                        /\ hist' = [h EXCEPT !.spawnRet = "error"]
                        /\ ret' = [NoRet EXCEPT !.op = "spawn", !.ok = FALSE]
                   ELSE IF OrchWaitNext(r.msg) = "stop"
                   THEN /\ ppc' = "idle"
                        /\ hist' = [h EXCEPT !.spawnRet = "stop",
                                      !.gotRelease = (r.msg.tag = IPC_RELEASE)]
                        /\ ret' = [NoRet EXCEPT !.op = "spawn"]
                   ELSE /\ hist' = h
                        /\ UNCHANGED <<ppc, ret>>
    /\ UNCHANGED <<loc, p2c, pShut, cShut, cpc, csig, wire>>
    /\ UNCHANGED ccvars

\* orchlua_process_term(), lines 699-709, and orchlua_term_update(), lines
\* 278-296: a request whose send failed makes the call return, a request
\* that was sent makes it wait for the reply
AfterRequest_NoWait(rc) == "return"

AfterRequest(rc) == IF rc # 0 THEN "return" ELSE "wait"

\* orchlua_process_term() up to the send of the inquiry
ParentTerm ==
    /\ ppc = "idle"
    /\ IF proc.ipc = "NULL"
       THEN /\ ParentFault(hist, "ipc")
            /\ UNCHANGED <<proc, pipc, ret, p2c, c2p>>
       ELSE IF ~IpcOkay(pipc)
       THEN /\ ret' = [NoRet EXCEPT !.op = "term", !.ok = FALSE,
                                    !.why = "process already released"]
            /\ UNCHANGED <<proc, pipc, ppc, hist, p2c, c2p, pShut>>
       ELSE IF proc.term # NoTermios
       THEN /\ ret' = [NoRet EXCEPT !.op = "term", !.ok = FALSE,
                                    !.why = "process term already generated"]
            /\ UNCHANGED <<proc, pipc, ppc, hist, p2c, c2p, pShut>>
       ELSE LET reg == Register(pipc, IPC_TERMIOS_SET, "term_set")
                r == Send(reg, c2p, ChildEof, p2c, Msg(IPC_TERMIOS_INQUIRY, <<>>))
            IN  /\ c2p' = r.in
                /\ p2c' = r.out
                /\ hist' = PSent(hist, r)
                /\ IF AfterRequest(r.rc) = "return"
                   THEN /\ pipc' = Register(r.ipc, IPC_TERMIOS_SET, "none")
                        /\ ret' = [NoRet EXCEPT !.op = "term", !.ok = FALSE,
                                                !.why = "send"]
                        /\ UNCHANGED ppc
                   ELSE /\ pipc' = r.ipc
                        /\ ppc' = "term_wait"
                        /\ UNCHANGED ret
                /\ UNCHANGED <<proc, pShut>>
    /\ UNCHANGED <<loc, cShut, cpc, csig, wire>>
    /\ UNCHANGED ccvars

\* orchlua_process_term(), lines 711-731: the receive succeeded, handed no
\* message back, and the handler has set sterm.initialized
TermGood(r) == r.rc = 0 /\ r.msg = NullMsg /\ r.sterm # NoTermios

UpdateGood_NoMessage(r) == r.rc = 0

\* orchlua_term_update(), lines 296-310: the receive succeeded and handed
\* back a TERMIOS_ACK
UpdateGood(r) == r.rc = 0 /\ r.msg # NullMsg /\ r.msg.tag = IPC_TERMIOS_ACK

\* orchlua_process_term() from orch_ipc_wait() on: the reply is handed to
\* the one-shot handler, any message handed back is unexpected
ParentTermRecv ==
    /\ ppc = "term_wait"
    /\ WaitReady(pipc, c2p, ChildEof)
    /\ LET r == ParentRecv(TRUE)
           good == TermGood(r)
       IN  /\ pipc' = Register(r.ipc, IPC_TERMIOS_SET, "none")
           /\ c2p' = r.s
           /\ hist' = [PRcvd(hist, r) EXCEPT
                         !.violation = @ \/ (~good /\ r.popped # <<>>),
                         !.reqDone = @ + 1]
           /\ proc' = [proc EXCEPT !.error = r.error,
                                   !.term = IF good THEN r.sterm ELSE @]
           /\ ret' = [NoRet EXCEPT !.op = "term", !.ok = good,
                         !.why = IF good THEN ""
                                 ELSE IF r.rc # 0 THEN "recv"
                                 ELSE IF r.msg # NullMsg
                                 THEN "unexpected message type"
                                 ELSE "unknown unexpected message received"]
    /\ ppc' = "idle"
    /\ UNCHANGED <<loc, p2c, pShut, cShut, cpc, csig, wire>>
    /\ UNCHANGED ccvars

\* The fields orchlua_term_update() looks for in its argument
UpdateFields == {"iflag", "oflag", "lflag", "cc"}

\* The fields a script may name
ScriptFields == {"iflag", "oflag", "cflag", "lflag", "cc"}

\* orchlua_term_fetch(): the value pushed for a field name, nil for a name
\* that is none of the five
Fetch(t, which) ==
    CASE which = "iflag" -> t.iflag
      [] which = "oflag" -> t.oflag
      [] which = "cflag" -> t.cflag
      [] which = "lflag" -> t.lflag
      [] which = "cc" -> t.cc
      [] OTHER -> "nil"

Updated_FromBlank(old, f, x) ==
    IF f \notin UpdateFields THEN old
    ELSE [iflag |-> IF f = "iflag" THEN x ELSE 0,
          oflag |-> IF f = "oflag" THEN x ELSE 0,
          cflag |-> old.cflag,
          lflag |-> IF f = "lflag" THEN x ELSE 0,
          cc |-> IF f = "cc" THEN x ELSE 0]

\* orchlua_term_update(), lines 215-265: the new snapshot
Updated(old, f, x) ==
    IF f \notin UpdateFields THEN old
    ELSE CASE f = "iflag" -> [old EXCEPT !.iflag = x]
           [] f = "oflag" -> [old EXCEPT !.oflag = x]
           [] f = "cflag" -> [old EXCEPT !.cflag = x]
           [] f = "lflag" -> [old EXCEPT !.lflag = x]
           [] OTHER -> [old EXCEPT !.cc = x]

\* The update() calls of the script: MaxUpdates of them, and a call that
\* failed repeated with the same argument MaxRetries times
UpdateAllowed(f, x) ==
    \/ hist.updates < MaxUpdates
    \/ /\ hist.updates < MaxUpdates + MaxRetries
       /\ ret.op = "update"
       /\ ~ret.ok
       /\ f = ret.field
       /\ x = ret.val

\* orchlua_term_update() up to the send: the handle's snapshot is replaced
\* before the message is built and sent
ParentUpdate ==
    /\ ppc = "idle"
    /\ proc.term # NoTermios
    /\ \E f \in ScriptFields :
       \E x \in {v \in FlagVals : UpdateAllowed(f, v)} :
          LET p == [proc EXCEPT !.term = Updated(proc.term, f, x)]
              h == [hist EXCEPT !.updates = @ + 1]
              m == Msg(IPC_TERMIOS_SET, TermiosWords(p.term))
              l == [NoLoc EXCEPT !.field = f, !.val = x, !.old = proc.term,
                                 !.sent = WordsTermios(m.data)]
          IN  /\ proc' = p
              /\ IF p.ipc = "NULL"
                 THEN /\ ParentFault(h, "ipc")
                      /\ UNCHANGED <<pipc, ret, loc, p2c, c2p>>
                 ELSE LET r == Send(pipc, c2p, ChildEof, p2c, m)
                      IN  /\ pipc' = r.ipc
                          /\ c2p' = r.in
                          /\ p2c' = r.out
                          /\ hist' = PSent(h, r)
                          /\ IF AfterRequest(r.rc) = "return"
                             THEN /\ ret' = [NoRet EXCEPT !.op = "update",
                                               !.ok = FALSE, !.why = "send",
                                               !.field = f, !.val = x,
                                               !.old = proc.term]
                                  /\ UNCHANGED <<ppc, loc>>
                             ELSE /\ ppc' = "upd_wait"
                                  /\ loc' = l
                                  /\ UNCHANGED ret
                          /\ UNCHANGED pShut
    /\ UNCHANGED <<cShut, cpc, csig, wire>>
    /\ UNCHANGED ccvars

\* orchlua_term_update() from "Wait for ack" on
ParentUpdateRecv ==
    /\ ppc = "upd_wait"
    /\ WaitReady(pipc, c2p, ChildEof)
    /\ LET r == ParentRecv(TRUE)
           good == UpdateGood(r)
       IN  /\ pipc' = r.ipc
           /\ c2p' = r.s
           /\ hist' = [PRcvd(hist, r) EXCEPT
                         !.violation = @ \/ (~good /\ r.popped # <<>>),
                         !.reqDone = @ + 1]
           /\ proc' = [proc EXCEPT !.error = r.error]
           /\ ret' = [NoRet EXCEPT !.op = "update", !.ok = good,
                         !.why = IF good THEN ""
                                 ELSE IF r.rc # 0 THEN "recv"
                                 ELSE IF r.msg = NullMsg
                                 THEN "unknown unexpected message received"
                                 ELSE "unexpected message type",
                         !.field = loc.field, !.val = loc.val,
                         !.old = loc.old, !.sent = loc.sent]
    /\ ppc' = "idle"
    /\ loc' = NoLoc
    /\ UNCHANGED <<p2c, pShut, cShut, cpc, csig, wire>>
    /\ UNCHANGED ccvars


\* orchlua_process_release(), lines 622-636, once orch_ipc_close() is done:
\* the Channel pointer is cleared; released is set if the send succeeded
ReleaseFinish_AlwaysReleased(p, ipc, l, h) ==
    /\ proc' = [p EXCEPT !.ipc = "NULL", !.released = TRUE]
    /\ pipc' = ipc
    /\ hist' = [h EXCEPT !.ipcFrees = @ + 1]
    /\ ret' = [NoRet EXCEPT !.op = "release", !.ok = (l.error = 0)]
    /\ ppc' = "idle"
    /\ loc' = NoLoc

ReleaseFinish(p, ipc, l, h) ==
    /\ proc' = [p EXCEPT !.ipc = "NULL",
                         !.released = IF l.error = 0 THEN TRUE ELSE @]
    /\ pipc' = ipc
    /\ hist' = [h EXCEPT !.ipcFrees = @ + 1]
    /\ ret' = [NoRet EXCEPT !.op = "release", !.ok = (l.error = 0)]
    /\ ppc' = "idle"
    /\ loc' = NoLoc

\* orchlua_process_release(): orch_release(), then orch_ipc_close() up to
\* shutdown(SHUT_WR)
ParentRelease ==
    /\ ppc = "idle"
    /\ IF proc.ipc = "NULL"
       THEN /\ ParentFault(hist, "ipc")
            /\ UNCHANGED <<proc, pipc, loc, ret, p2c, c2p>>
       ELSE LET r == Send(pipc, c2p, ChildEof, p2c, Msg(IPC_RELEASE, <<>>))
                l == [NoLoc EXCEPT !.error = r.rc]
                h == [PSent(hist, r) EXCEPT
                         !.relSent = @ \/ (r.rc = 0),
                         !.relWaiting = @ \/ (r.rc = 0 /\ cpc \in {"wait", "pop"})]
            IN  /\ c2p' = r.in
                /\ p2c' = r.out
                /\ IF IpcOkay(r.ipc)
                   THEN /\ pShut' = TRUE
                        /\ pipc' = r.ipc
                        /\ ppc' = "rel_close"
                        /\ loc' = l
                        /\ hist' = h
                        /\ UNCHANGED <<proc, ret>>
                   ELSE LET f == IpcFree(r.ipc, proc.error)
                        IN  /\ ReleaseFinish([proc EXCEPT !.error = f.error],
                                             f.ipc, l, PPopped(h, f))
                            /\ UNCHANGED pShut
    /\ UNCHANGED <<cShut, cpc, csig, wire>>
    /\ UNCHANGED ccvars

\* orchlua_process_killed(): waitpid(WNOHANG) reaps the child if its exit is
\* waitable.  The assertion that pid is not 0 is the caller's to keep.
ProcessKilled_Blind(p, pc, st) ==
    IF pc = "zombie"
    THEN [killed |-> TRUE, signo |-> "none", proc |-> [p EXCEPT !.pid = 0]]
    ELSE [killed |-> FALSE, signo |-> "none", proc |-> p]

ProcessKilled(p, pc, st) ==
    IF pc = "zombie"
    THEN [killed |-> TRUE,
          signo |-> IF WIFSIGNALED(st) THEN st.sig ELSE "none",
          proc |-> [p EXCEPT !.pid = 0]]
    ELSE [killed |-> FALSE, signo |-> "none", proc |-> p]

\* kill(): a signal sent to a process that is already gone does nothing
Kill(sig, pc, pending) ==
    IF pc \in {"exiting", "zombie", "reaped"} THEN pending ELSE sig

\* orchlua_process_close(), lines 421-426: the Channel pointer and the pty
\* descriptor are cleared
ProcAfterClose_KeepIpc(p) == [p EXCEPT !.termctl = "closed"]

ProcAfterClose_ClearFlags(p) ==
    [p EXCEPT !.ipc = "NULL", !.termctl = "closed", !.released = FALSE,
              !.eof = FALSE, !.error = FALSE]

ProcAfterClose(p) == [p EXCEPT !.ipc = "NULL", !.termctl = "closed"]

\* orchlua_process_close(), lines 421-435, once orch_ipc_close() is done;
\* freed tells whether orch_ipc_close() freed a Channel
CloseFinish(p, ipc, l, h, freed) ==
    /\ proc' = ProcAfterClose(p)
    /\ pipc' = ipc
    /\ hist' = [h EXCEPT
                  !.termCloses = @ + (IF p.termctl # "closed" THEN 1 ELSE 0),
                  !.ipcFrees = @ + freed,
                  !.closed = TRUE]
    /\ ret' = [NoRet EXCEPT !.op = "close", !.ok = ~l.failed,
                  !.why = IF l.failed
                          THEN "could not kill process with SIGINT" ELSE "",
                  !.esc = l.esc, !.nsig = l.nsig, !.prior = l.prior,
                  !.normal = l.normal, !.zsig = l.zsig]
    /\ ppc' = "idle"
    /\ loc' = NoLoc

\* orchlua_process_close(), line 421: orch_ipc_close() up to
\* shutdown(SHUT_WR), or all of it when there is nothing to wait for
CloseIpc(p, l, h) ==
    IF p.ipc = "NULL"
    THEN /\ CloseFinish(p, pipc, l, h, 0)
         /\ UNCHANGED pShut
    ELSE IF IpcOkay(pipc)
    THEN /\ pShut' = TRUE
         /\ ppc' = "close_ipc"
         /\ proc' = p
         /\ loc' = l
         /\ hist' = h
         /\ UNCHANGED <<pipc, ret>>
    ELSE LET f == IpcFree(pipc, p.error)
         IN  /\ CloseFinish([p EXCEPT !.error = f.error], f.ipc, l,
                         PPopped(h, f), 1)
             /\ UNCHANGED pShut

ExplicitClose_Always(ipc) == 1

\* orch_ipc_close(), lines 87-90: the close() calls made after the loop,
\* one unless the drain has closed the descriptor at end-of-file
ExplicitClose(ipc) == IF IpcOkay(ipc) THEN 1 ELSE 0

\* One turn of the loop of orch_ipc_close() in the parent, called from
\* release() or close(); when the loop ends the descriptor is closed, the
\* queue popped and the Channel freed
ParentIpcCloseIter ==
    /\ ppc \in {"close_ipc", "rel_close"}
    /\ WaitReady(pipc, c2p, ChildEof)
    /\ LET d == Drain(pipc, c2p, ChildEof)
       IN  /\ c2p' = d.s
           /\ IF ~IpcOkay(d.ipc) \/ d.rc # 0
              THEN LET f == IpcFree([d.ipc EXCEPT !.sockfd = "closed"],
                                    proc.error)
                       h == PPopped([Bump(hist, d.closed) EXCEPT
                                        !.sockCloses = @ + ExplicitClose(d.ipc)],
                                    f)
                       p == [proc EXCEPT !.error = f.error]
                   IN  IF ppc = "close_ipc"
                       THEN CloseFinish(p, f.ipc, loc, h, 1)
                       ELSE ReleaseFinish(p, f.ipc, loc, h)
              ELSE /\ pipc' = d.ipc
                   /\ UNCHANGED <<proc, ppc, loc, ret, hist>>
    /\ UNCHANGED <<p2c, pShut, cShut, cpc, csig, wire>>
    /\ UNCHANGED ccvars

\* orchlua_process_close(), lines 385-404: the early look at a child that
\* has exited, then SIGINT with the alarm armed
ParentClose ==
    /\ ppc = "idle"
    /\ LET k == IF proc.pid # 0 THEN ProcessKilled(proc, cpc, cstat)
                ELSE [killed |-> FALSE, signo |-> "none", proc |-> proc]
           l == [NoLoc EXCEPT
                    !.prior = hist.closed,
                    !.normal = cpc \in {"zombie", "reaped"} /\ ~WIFSIGNALED(cstat),
                    !.zsig = proc.pid # 0 /\ cpc = "zombie" /\ WIFSIGNALED(cstat)]
       IN  /\ cpc' = IF k.killed THEN "reaped" ELSE cpc
           /\ IF k.killed /\ k.signo # "none"
              THEN /\ proc' = k.proc
                   /\ ret' = [NoRet EXCEPT !.op = "close", !.ok = FALSE,
                                 !.why = "spawned process killed with signal",
                                 !.prior = l.prior, !.zsig = l.zsig]
                   /\ hist' = [hist EXCEPT !.closed = TRUE]
                   /\ UNCHANGED <<pipc, ppc, loc, pShut, csig>>
              ELSE IF k.proc.pid # 0
              THEN /\ proc' = k.proc
                   /\ csig' = Kill("SIGINT", cpc, csig)
                   /\ loc' = [l EXCEPT !.sig = "SIGINT", !.alarm = TRUE,
                                       !.nsig = 1]
                   /\ hist' = [hist EXCEPT !.sigint = @ + 1]
                   /\ ppc' = "close_wait"
                   /\ UNCHANGED <<pipc, ret, pShut>>
              ELSE /\ CloseIpc(k.proc, l, hist)
                   /\ UNCHANGED csig
    /\ UNCHANGED <<p2c, c2p, cShut, wire>>
    /\ UNCHANGED ccvars

\* orchlua_process_close(), lines 405-419: waitpid() returns the child
ParentCloseWaitpid ==
    /\ ppc = "close_wait"
    /\ cpc = "zombie"
    /\ cpc' = "reaped"
    /\ CloseIpc([proc EXCEPT !.pid = 0], [loc EXCEPT !.alarm = FALSE], hist)
    /\ UNCHANGED <<p2c, c2p, cShut, csig, wire>>
    /\ UNCHANGED ccvars

\* orchlua_process_close(), lines 407-415: what follows a waitpid() that
\* did not return the child
Escalate_Silent(l) ==
    [l EXCEPT !.sig = "SIGKILL", !.alarm = FALSE]

Escalate(l) ==
    [l EXCEPT !.failed = TRUE, !.sig = "SIGKILL", !.alarm = FALSE]

\* orchlua_process_close(), lines 405-415 and 404: the alarm interrupts
\* waitpid(); SIGKILL is sent and waitpid() called again, with no alarm
ParentCloseAlarm ==
    /\ ppc = "close_wait"
    /\ loc.alarm
    /\ loc.sig # "SIGKILL"
    /\ loc' = [Escalate(loc) EXCEPT !.esc = TRUE, !.nsig = @ + 1]
    /\ csig' = Kill("SIGKILL", cpc, csig)
    /\ hist' = [hist EXCEPT !.sigkill = @ + 1]
    /\ UNCHANGED <<proc, pipc, ppc, ret, p2c, c2p, pShut, cShut, cpc, wire>>
    /\ UNCHANGED ccvars

\* What read() does on a descriptor of -1 is undefined (FD_SET(-1)): the
\* select() times out, or the process is killed
ReadClosedOutcomes == {"timeout", "fault"}

\* orchlua_process_read().  The loop is not entered once the error flag is
\* set.  Without end-of-file the call returns true (a timeout, or the
\* callback is done).  At end-of-file: the flag, close(), then
\* orchlua_process_killed(), whose assertion aborts the process if the
\* child was reaped before.
ParentRead ==
    /\ ppc = "idle"
    /\ IF proc.error
       THEN /\ ret' = [NoRet EXCEPT !.op = "read"]
            /\ UNCHANGED <<proc, ppc, hist, pShut, cpc>>
       ELSE IF proc.termctl = "closed"
       THEN \E o \in ReadClosedOutcomes :
               IF o = "fault"
               THEN /\ ParentFault([hist EXCEPT !.usedClosed = TRUE],
                                    "termctl")
                    /\ UNCHANGED <<proc, ret, cpc>>
               ELSE /\ ret' = [NoRet EXCEPT !.op = "read"]
                    /\ hist' = [hist EXCEPT !.usedClosed = TRUE]
                    /\ UNCHANGED <<proc, ppc, pShut, cpc>>
       ELSE IF slave # "closed"
       THEN /\ ret' = [NoRet EXCEPT !.op = "read"]
            /\ UNCHANGED <<proc, ppc, hist, pShut, cpc>>
       ELSE LET p == [proc EXCEPT !.eof = TRUE, !.termctl = "closed"]
                h == [hist EXCEPT !.termCloses = @ + 1]
            IN  IF p.pid = 0
                THEN /\ ParentFault(h, "assert")
                     /\ proc' = p
                     /\ UNCHANGED <<ret, cpc>>
                ELSE LET k == ProcessKilled(p, cpc, cstat)
                     IN  /\ proc' = k.proc
                         /\ hist' = h
                         /\ cpc' = IF k.killed THEN "reaped" ELSE cpc
                         /\ ret' = [NoRet EXCEPT !.op = "read", !.eof = TRUE,
                                       !.ok = ~(k.killed /\ k.signo # "none"),
                                       !.why = IF k.killed /\ k.signo # "none"
                                               THEN "spawned process killed with signal"
                                               ELSE ""]
                         /\ UNCHANGED <<ppc, pShut>>
    /\ UNCHANGED <<pipc, loc, p2c, c2p, cShut, csig, wire>>
    /\ UNCHANGED ccvars

\* orchlua_process_write(): write(self->termctl, ...) is called whatever
\* the descriptor is, and fails on a closed one
ParentWrite ==
    /\ ppc = "idle"
    /\ ret' = [NoRet EXCEPT !.op = "write", !.ok = (proc.termctl = "open")]
    /\ hist' = [hist EXCEPT !.usedClosed = @ \/ (proc.termctl = "closed")]
    /\ UNCHANGED <<proc, pipc, ppc, loc, p2c, c2p, pShut, cShut, cpc,
                   csig, wire>>
    /\ UNCHANGED ccvars

\* The parent process ends without closing the handle: err(1, ...) in
\* orchlua_open_init() exits at once; the kernel closes the descriptors
ParentTerminate ==
    /\ ppc = "idle"
    /\ ppc' = "exited"
    /\ pShut' = TRUE
    /\ UNCHANGED <<proc, pipc, loc, ret, hist, p2c, c2p, cShut, cpc, csig,
                   wire>>
    /\ UNCHANGED ccvars

ParentNext ==
    \/ SpawnWait
    \/ ParentTerm
    \/ ParentTermRecv
    \/ ParentUpdate
    \/ ParentUpdateRecv
    \/ ParentRelease
    \/ ParentIpcCloseIter
    \/ ParentClose
    \/ ParentCloseWaitpid
    \/ ParentCloseAlarm
    \/ ParentRead
    \/ ParentWrite
    \/ ParentTerminate

Next ==
    \/ SpawnWait
    \/ ParentTerm
    \/ ParentTermRecv
    \/ ParentUpdate
    \/ ParentUpdateRecv
    \/ ParentRelease
    \/ ParentIpcCloseIter
    \/ ParentClose
    \/ ParentCloseWaitpid
    \/ ParentCloseAlarm
    \/ ParentRead
    \/ ParentWrite
    \/ ParentTerminate
    \/ ChildNewsess
    \/ ChildUsept
    \/ ChildErrorSend
    \/ ChildExecStart
    \/ ChildWait
    \/ ChildPop
    \/ ChildIpcCloseStart
    \/ ChildIpcCloseIter
    \/ ChildIpcClosePop
    \/ ChildDoExec
    \/ TargetCloseSlave
    \/ TargetEnds
    \/ ChildSignal
    \/ ChildZombie

Spec == Init /\ [][Next]_vars


FairSpec ==
    /\ Init
    /\ [][Next]_vars
    /\ WF_vars(ChildNewsess \/ ChildUsept \/ ChildErrorSend \/ ChildExecStart
               \/ ChildWait \/ ChildPop \/ ChildIpcCloseStart
               \/ ChildIpcCloseIter \/ ChildIpcClosePop \/ ChildDoExec)
    /\ WF_vars(ChildSignal)
    /\ WF_vars(ChildZombie)
    /\ WF_vars(SpawnWait \/ ParentTermRecv \/ ParentUpdateRecv
               \/ ParentIpcCloseIter \/ ParentCloseWaitpid \/ ParentCloseAlarm)

(***************************************************************************)
(* The channel at the level of the wire: orch_ipc_send() on one endpoint   *)
(* writes the header in one write and the payload in as many writes as     *)
(* the socket takes; orch_ipc_recv() on the other endpoint drains read by  *)
(* read and pops the queue.  No handler is registered.                     *)
(***************************************************************************)

mainvars == <<proc, pipc, cipc, p2c, c2p, pShut, cShut, ppc, cpc, ct, ptyattr,
              slave, cstat, csig, cerr, loc, ret, hist>>

Words == 0..1

Payloads == UNION {[1..n -> Words] : n \in 0..MaxPayload}

\* orch_ipc_send(), lines 377-388: the header is written
WireSendHdr ==
    /\ ~wire.sending
    /\ ~wire.shut
    /\ Len(wire.sent) < MaxSends
    /\ \E tag \in Tags, data \in Payloads :
          LET m == Msg(tag, data)
          IN  wire' = [wire EXCEPT !.sent = Append(@, m),
                                   !.stream = @ \o MsgHdr(m),
                                   !.tx = m.data,
                                   !.sending = m.data # <<>>]
    /\ UNCHANGED mainvars

\* orch_ipc_send(), lines 389-399: one write of the payload loop; the
\* socket takes n of the words left
WireSendPayload ==
    /\ wire.sending
    /\ ~wire.shut
    /\ \E n \in 1..MaxChunk :
          /\ n <= Len(wire.tx)
          /\ wire' = [wire EXCEPT
                        !.stream = @ \o SubSeq(wire.tx, 1, n),
                        !.tx = SubSeq(wire.tx, n + 1, Len(wire.tx)),
                        !.sending = n < Len(wire.tx)]
    /\ UNCHANGED mainvars

\* orch_ipc_pop(ipc, &rcvmsg) with no handler registered: the head of the
\* queue, or NULL
WirePop(w) ==
    IF w.q = <<>>
    THEN [w EXCEPT !.rx = "idle", !.rc = 0]
    ELSE [w EXCEPT !.rx = "idle", !.rc = 0, !.got = Append(@, Head(w.q)),
                   !.gh = Append(@, Head(w.qh)), !.q = Tail(w.q),
                   !.qh = Tail(w.qh)]

\* orch_ipc_recv() is called: orch_ipc_drain() starts
WireRecv ==
    /\ wire.rx = "idle"
    /\ Len(wire.got) < MaxSends
    /\ wire' = IF IpcOkay(wire.ipc) THEN [wire EXCEPT !.rx = "hdr"]
                ELSE WirePop(wire)
    /\ UNCHANGED mainvars

\* The message orch_ipc_drain() links into the queue, lines 223-261
WireEnqueue(w, hdr, data) ==
    [w EXCEPT !.q = Enqueue(@, Msg(hdr[2], data)), !.qh = Append(@, hdr),
              !.rx = "hdr",
              !.hdr = <<>>, !.data = <<>>, !.resid = 0]

\* orch_ipc_drain(), lines 194-229: the read of a header.  EAGAIN ends the
\* drain and orch_ipc_recv() pops; a bad header fails the call.
WireDrainHdr ==
    /\ wire.rx = "hdr"
    /\ ~(wire.stream = <<>> /\ wire.shut)
    /\ IF Len(wire.stream) = 0
       THEN wire' = WirePop(wire)
       ELSE LET n == IF Len(wire.stream) < HdrSize THEN Len(wire.stream)
                     ELSE HdrSize
                hdr == SubSeq(wire.stream, 1, n)
                rest == SubSeq(wire.stream, n + 1, Len(wire.stream))
            IN  IF n < HdrSize \/ ~HdrValid(hdr[1], hdr[2])
                THEN wire' = [wire EXCEPT !.stream = rest, !.rx = "idle",
                                          !.rc = -1]
                ELSE IF PayloadSize(hdr[1]) = 0
                THEN wire' = WireEnqueue([wire EXCEPT !.stream = rest],
                                         hdr, <<>>)
                ELSE wire' = [wire EXCEPT !.stream = rest, !.rx = "payload",
                                          !.hdr = hdr, !.data = <<>>,
                                          !.resid = PayloadSize(hdr[1])]
    /\ UNCHANGED mainvars

\* orch_ipc_drain(), lines 231-254: one read of the payload loop; on EAGAIN
\* the drain waits in orch_ipc_poll() for the socket to be readable
WireDrainPayload ==
    /\ wire.rx = "payload"
    /\ Len(wire.stream) > 0
    /\ LET n == IF Len(wire.stream) < wire.resid THEN Len(wire.stream)
                ELSE wire.resid
           data == wire.data \o SubSeq(wire.stream, 1, n)
           rest == SubSeq(wire.stream, n + 1, Len(wire.stream))
       IN  IF n = wire.resid
           THEN wire' = WireEnqueue([wire EXCEPT !.stream = rest],
                                    wire.hdr, data)
           ELSE wire' = [wire EXCEPT !.stream = rest, !.data = data,
                                     !.resid = @ - n]
    /\ UNCHANGED mainvars

\* orch_ipc_drain(), lines 245-249 and 268-274: read() returned 0.  A
\* message whose payload is incomplete is freed, the descriptor is closed,
\* and the drain returns 0.
DrainEof_Enqueue(w) ==
    [w EXCEPT !.q = IF w.rx = "payload"
                    THEN Append(@, Msg(w.hdr[2], w.data)) ELSE @,
              !.qh = IF w.rx = "payload" THEN Append(@, w.hdr) ELSE @,
              !.hdr = <<>>, !.data = <<>>, !.resid = 0,
              !.ipc = [@ EXCEPT !.sockfd = "closed"]]

DrainEof(w) ==
    [w EXCEPT !.hdr = <<>>, !.data = <<>>, !.resid = 0,
              !.ipc = [@ EXCEPT !.sockfd = "closed"]]

\* The sending end goes away: its process is killed or exits, between two
\* messages or between two writes of one message
WireSenderGone ==
    /\ ~wire.shut
    /\ wire' = [wire EXCEPT !.shut = TRUE]
    /\ UNCHANGED mainvars

\* orch_ipc_drain(): a read() of the header or of the payload returns 0;
\* orch_ipc_recv() goes on to pop the queue
WireDrainEof ==
    /\ wire.rx \in {"hdr", "payload"}
    /\ wire.stream = <<>>
    /\ wire.shut
    /\ wire' = WirePop(DrainEof(wire))
    /\ UNCHANGED mainvars

\* orch_ipc_drain(), lines 195-198 and 233-237: a read() fails with an
\* error other than EAGAIN; an incomplete message is freed (the header
\* read never holds one) and orch_ipc_recv() returns -1
WireReadError ==
    /\ wire.rx \in {"hdr", "payload"}
    /\ wire' = [wire EXCEPT !.rx = "idle", !.rc = -1, !.hdr = <<>>,
                            !.data = <<>>, !.resid = 0]
    /\ UNCHANGED mainvars

WireNext ==
    \/ WireSendHdr
    \/ WireSendPayload
    \/ WireRecv
    \/ WireDrainHdr
    \/ WireDrainPayload

\* The attributes of the pty play no part at the level of the wire
WireInit == Init /\ ptyattr.lflag = 1

SpecWire == WireInit /\ [][WireNext]_vars

\* The wire with its faults: the sender may go away and a read may fail
WireFaultsNext ==
    \/ WireSendHdr
    \/ WireSendPayload
    \/ WireRecv
    \/ WireDrainHdr
    \/ WireDrainPayload
    \/ WireSenderGone
    \/ WireDrainEof
    \/ WireReadError

SpecWireFaults == WireInit /\ [][WireFaultsNext]_vars


(***************************************************************************)
(* Registration on a Channel: orch_ipc_register() called with any tag and  *)
(* any handler, or NULL, on a Channel with any table of handlers.          *)
(***************************************************************************)

Handlers == {"none", "child_error", "term_set"}

WireRegister ==
    /\ \E tag \in Tags, h \in Handlers :
          wire' = [wire EXCEPT
                     !.ipc = Register(wire.ipc, tag, h),
                     !.reg = [tag |-> tag, prev |-> wire.ipc.cb[tag],
                              new |-> h,
                              rc |-> RegisterRc(wire.ipc, tag, h)]]
    /\ UNCHANGED mainvars

SpecRegister == WireInit /\ [][WireRegister]_vars


(***************************************************************************)
(* One endpoint and the order of its messages: the peer sends, the         *)
(* endpoint sends (which drains), receives (which drains and pops, with    *)
(* the handlers of the parent registered or not) and closes.               *)
(***************************************************************************)

\* What the peer sends: no payload, or a struct termios
OrderPayloads == {<<>>} \cup {TermiosWords(t) : t \in PtyInitAttrs}

\* orch_ipc_send() in the peer
OrderPeerSend ==
    /\ ~wire.shut
    /\ Len(wire.sent) < MaxMsgs
    /\ \E tag \in Tags, data \in OrderPayloads :
          wire' = [wire EXCEPT !.sent = Append(@, Msg(tag, data)),
                               !.stream = @ \o Wire(Msg(tag, data))]
    /\ UNCHANGED mainvars

\* The peer closes its end
OrderPeerClose ==
    /\ ~wire.shut
    /\ wire' = [wire EXCEPT !.shut = TRUE]
    /\ UNCHANGED mainvars

\* orch_ipc_register() of one of the parent's handlers, or of NULL
OrderRegister ==
    /\ \E tag \in {IPC_ERROR, IPC_TERMIOS_SET} :
          wire' = [wire EXCEPT !.ipc =
                     Register(@, tag,
                              IF wire.ipc.cb[tag] # "none" THEN "none"
                              ELSE IF tag = IPC_ERROR THEN "child_error"
                              ELSE "term_set")]
    /\ UNCHANGED mainvars

\* orch_ipc_send() on the endpoint: what it sends goes to the peer, what it
\* drains goes to the queue
OrderSend ==
    /\ LET r == Send(wire.ipc, wire.stream, wire.shut, <<>>,
                     Msg(IPC_TERMIOS_ACK, <<>>))
       IN  /\ r.ipc # wire.ipc
           /\ wire' = [wire EXCEPT !.ipc = r.ipc, !.stream = r.in,
                                   !.rc = r.rc]
    /\ UNCHANGED mainvars

\* orch_ipc_recv() on the endpoint: the messages dispatched to handlers and
\* the message returned are what it took off the queue, in that order
OrderRecv ==
    /\ LET d == Drain(wire.ipc, wire.stream, wire.shut)
           p == ParentPop(d.ipc.q, d.ipc.cb, TRUE,
                          [error |-> FALSE, sterm |-> NoTermios])
       IN  /\ d.ipc.q # <<>>
           /\ wire' = [wire EXCEPT
                         !.ipc = [d.ipc EXCEPT !.q = p.q],
                         !.stream = d.s,
                         !.rc = IF d.rc # 0 THEN -1 ELSE p.rc,
                         !.got = IF d.rc # 0 THEN @
                                 ELSE @ \o SubSeq(d.ipc.q, 1,
                                                  Len(d.ipc.q) - Len(p.q))]
    /\ UNCHANGED mainvars

OrderNext ==
    \/ OrderPeerSend
    \/ OrderPeerClose
    \/ OrderRegister
    \/ OrderSend
    \/ OrderRecv

SpecOrder == WireInit /\ [][OrderNext]_vars


(***************************************************************************)
(* The calls of one endpoint, each as a whole, with what it did to the     *)
(* queue: orch_ipc_recv(), orch_ipc_send() and the last orch_ipc_pop() of  *)
(* orch_ipc_close(), with the handlers of the parent registered or not.    *)
(***************************************************************************)

\* What the peer sends: three of the tags, with no payload or a termios
PopTags == {IPC_ERROR, IPC_TERMIOS_SET, IPC_TERMIOS_ACK}

PopPayloads == {<<>>, <<0, 0, 0, 1, 0>>}

PopPeerSend ==
    /\ ~wire.shut
    /\ wire.call.op # "close"
    /\ Len(wire.sent) < MaxMsgs
    /\ \E tag \in PopTags, data \in PopPayloads :
          wire' = [wire EXCEPT !.sent = Append(@, Msg(tag, data)),
                               !.stream = @ \o Wire(Msg(tag, data))]
    /\ UNCHANGED mainvars

\* orch_ipc_recv(ipc, &msg): orch_ipc_drain(), then orch_ipc_pop()
PopRecv ==
    /\ wire.call.op # "close"
    /\ LET d == Drain(wire.ipc, wire.stream, wire.shut)
           p == ParentPop(d.ipc.q, d.ipc.cb, TRUE,
                          [error |-> FALSE, sterm |-> NoTermios])
       IN  /\ d.ipc.q # <<>>
           /\ d.rc = 0
           /\ wire' = [wire EXCEPT
                         !.ipc = [d.ipc EXCEPT !.q = p.q],
                         !.stream = d.s,
                         !.call = [op |-> "recv", q0 |-> d.ipc.q,
                                   cb |-> d.ipc.cb,
                                   taken |-> SubSeq(d.ipc.q, 1,
                                               Len(d.ipc.q) - Len(p.q)),
                                   msg |-> p.msg, rc |-> p.rc,
                                   abort |-> FALSE, wt |-> NoWait,
                                   freed |-> "no"]]
    /\ UNCHANGED mainvars

\* orch_ipc_send(ipc, msg) with a TERMIOS_ACK
PopSend ==
    /\ wire.call.op # "close"
    /\ LET r == Send(wire.ipc, wire.stream, wire.shut, <<>>,
                     Msg(IPC_TERMIOS_ACK, <<>>))
       IN  /\ r.in # wire.stream
           /\ wire' = [wire EXCEPT
                         !.ipc = r.ipc,
                         !.stream = r.in,
                         !.call = [op |-> "send", q0 |-> r.ipc.q,
                                   cb |-> r.ipc.cb, taken |-> <<>>,
                                   msg |-> NullMsg, rc |-> r.rc,
                                   abort |-> FALSE, wt |-> NoWait,
                                   freed |-> "no"]]
    /\ UNCHANGED mainvars

\* orch_ipc_close(ipc) once the peer has closed: the loop drains to
\* end-of-file, then orch_ipc_pop(ipc, NULL) and the assertion that the
\* queue is empty
PopClose ==
    /\ wire.call.op # "close"
    /\ wire.shut
    /\ LET d == Drain(wire.ipc, wire.stream, wire.shut)
           c == [d.ipc EXCEPT !.sockfd = "closed"]
           p == ParentPop(c.q, c.cb, FALSE,
                          [error |-> FALSE, sterm |-> NoTermios])
       IN  wire' = [wire EXCEPT
                      !.ipc = [c EXCEPT !.q = p.q],
                      !.stream = d.s,
                      !.call = [op |-> "close", q0 |-> c.q, cb |-> c.cb,
                                taken |-> SubSeq(c.q, 1, Len(c.q) - Len(p.q)),
                                msg |-> p.msg, rc |-> p.rc,
                                abort |-> p.q # <<>>, wt |-> NoWait,
                                freed |-> "no"]]
    /\ UNCHANGED mainvars

IpcWait_PollFirst(ipc, eof0) ==
    [select |-> IpcOkay(ipc), rc |-> IF IpcOkay(ipc) THEN 1 ELSE 0,
     eof |-> ~IpcOkay(ipc)]

\* orch_ipc_wait(ipc, &eof_seen) and orch_ipc_poll(): with a message queued
\* it returns 0 and leaves *eof_seen as it was; otherwise *eof_seen is
\* cleared, set again if the descriptor is -1, and select() is called on an
\* open descriptor, returning 1 when it is readable
IpcWait(ipc, eof0) ==
    IF ipc.q # <<>>
    THEN [select |-> FALSE, rc |-> 0, eof |-> eof0]
    ELSE IF ~IpcOkay(ipc)
    THEN [select |-> FALSE, rc |-> 0, eof |-> TRUE]
    ELSE [select |-> TRUE, rc |-> 1, eof |-> FALSE]

\* orch_ipc_wait(ipc, &eof_seen) returns; select() returns once there is
\* something to read or the peer has closed
PopWait ==
    /\ wire.call.op # "close"
    /\ \E eof0 \in BOOLEAN :
          LET w == IpcWait(wire.ipc, eof0)
          IN  /\ w.select => (wire.stream # <<>> \/ wire.shut)
              /\ wire' = [wire EXCEPT
                            !.call = [NoCall EXCEPT
                                        !.op = "wait", !.q0 = wire.ipc.q,
                                        !.cb = wire.ipc.cb, !.rc = w.rc,
                                        !.wt = [closed |-> ~IpcOkay(wire.ipc),
                                                eof0 |-> eof0, eof |-> w.eof,
                                                select |-> w.select]]]
    /\ UNCHANGED mainvars

PopNext ==
    \/ PopWait
    \/ PopPeerSend
    \/ OrderPeerClose
    \/ OrderRegister
    \/ PopRecv
    \/ PopSend
    \/ PopClose

SpecPop == WireInit /\ [][PopNext]_vars


(***************************************************************************)
(* orch_ipc_recv() on an endpoint on which a handler that closes the       *)
(* Channel may be registered.                                              *)
(***************************************************************************)

\* orch_ipc_register() of a handler of the parent, of a handler that
\* closes the Channel, or of NULL
ClosingRegister ==
    /\ wire.call.freed = "no"
    /\ \E tag \in PopTags, h \in {"none", "closes", "child_error", "term_set"} :
          /\ h = "child_error" => tag = IPC_ERROR
          /\ h = "term_set" => tag = IPC_TERMIOS_SET
          /\ wire' = [wire EXCEPT !.ipc = Register(@, tag, h)]
    /\ UNCHANGED mainvars

\* What the read of ipc->head in freed memory gives: NULL, which ends the
\* loop, or anything else, which is taken for a queue entry
FreedReads == {"head_null", "fault"}

\* orch_ipc_recv(ipc, &msg): orch_ipc_drain(), then orch_ipc_pop(); the
\* orch_ipc_close() of a handler returns once the peer has closed
ClosingRecv ==
    /\ wire.call.freed = "no"
    /\ LET d == Drain(wire.ipc, wire.stream, wire.shut)
           p == ParentPop(d.ipc.q, d.ipc.cb, TRUE,
                          [error |-> FALSE, sterm |-> NoTermios])
       IN  /\ d.ipc.q # <<>>
           /\ d.rc = 0
           /\ p.freed => wire.shut
           /\ \E u \in IF p.freed THEN FreedReads ELSE {"no"} :
                 wire' = [wire EXCEPT
                            !.ipc = [d.ipc EXCEPT
                                       !.q = p.q,
                                       !.sockfd = IF p.freed THEN "closed"
                                                  ELSE @],
                            !.stream = d.s,
                            !.call = [NoCall EXCEPT
                                        !.op = "recv", !.q0 = d.ipc.q,
                                        !.cb = d.ipc.cb,
                                        !.taken = SubSeq(d.ipc.q, 1,
                                                    Len(d.ipc.q) - Len(p.q)),
                                        !.msg = p.msg, !.rc = p.rc,
                                        !.freed = u]]
    /\ UNCHANGED mainvars

ClosingNext ==
    \/ PopPeerSend
    \/ OrderPeerClose
    \/ ClosingRegister
    \/ ClosingRecv

SpecClosing == WireInit /\ [][ClosingNext]_vars


(***************************************************************************)
(* One operation at the level of its system calls: send, receive and       *)
(* wait_readable on the Channel (orch_ipc_send(), orch_ipc_recv(),         *)
(* orch_ipc_wait()), read and write on the pty master                      *)
(* (orchlua_process_read(), orchlua_process_write()).  Each system call    *)
(* ends in one of the results the kernel can give it; the socket is        *)
(* non-blocking, the pty master is blocking.                               *)
(***************************************************************************)

SysOps == {"send", "receive", "wait_readable", "read", "write"}

\* The operation returns rc with errno as the failing call left it
SysReturn_Close(y, rc, errno) ==
    [y EXCEPT !.pc = "idle", !.rc = rc, !.errno = errno,
              !.fd = IF rc = -1 THEN "closed" ELSE @]

SysReturn(y, rc, errno) == [y EXCEPT !.pc = "idle", !.rc = rc, !.errno = errno]

\* A call that gave EAGAIN / EINTR and what the code does next
SysAgain(y, pc) == [y EXCEPT !.pc = pc, !.again = TRUE]

SysIntr(y, pc) == [y EXCEPT !.pc = pc, !.intr = TRUE]

\* orch_ipc_drain() returns 0: orch_ipc_send() goes on to write the header,
\* orch_ipc_recv() pops the queue and returns 0
SysDrained(y) ==
    IF y.op = "send" THEN [y EXCEPT !.pc = "send_hdr"]
    ELSE SysReturn(y, 0, "none")

\* A script calls an operation
SysCall ==
    /\ wire.sys.pc = "idle"
    /\ \E op \in SysOps, len \in 0..MaxPayload, fd \in {"open", "closed"} :
          /\ op \in {"read", "wait_readable"} => len = 0
          /\ op = "write" => len > 0
          /\ op \in {"read", "write"} => fd = "open"
          /\ wire' = [wire EXCEPT !.sys =
                [SysIdle EXCEPT
                    !.op = op, !.fd = fd, !.resid = len,
                    !.pc = CASE op \in {"send", "receive"} ->
                                   IF fd = "open" THEN "drain_hdr"
                                   ELSE IF op = "send" THEN "send_hdr"
                                   ELSE "idle"
                             [] op = "wait_readable" ->
                                   IF fd = "open" THEN "poll" ELSE "idle"
                             [] op = "read" -> "select"
                             [] OTHER -> "write"]]
    /\ UNCHANGED mainvars

\* orch_ipc_drain(), lines 193-213: the read of a header
SysDrainHdr ==
    /\ wire.sys.pc = "drain_hdr"
    /\ LET y == wire.sys
       IN  \E res \in {"EAGAIN", "EINTR", "EIO", "eof", "badhdr", "hdr"},
              n \in 0..MaxPayload :
              /\ IF res = "hdr" THEN y.queued < MaxSends ELSE n = 0
              /\ wire' = [wire EXCEPT !.sys =
                    CASE res = "EAGAIN" -> SysDrained([y EXCEPT !.again = TRUE])
                      [] res = "EINTR" ->
                            SysReturn([y EXCEPT !.intr = TRUE], -1, "EINTR")
                      [] res = "EIO" -> SysReturn(y, -1, "EIO")
                      [] res = "eof" ->
                            SysDrained([y EXCEPT !.fd = "closed", !.eof = TRUE])
                      [] res = "badhdr" -> SysReturn(y, -1, "EINVAL")
                      [] OTHER ->
                            IF n = 0 THEN [y EXCEPT !.queued = @ + 1]
                            ELSE [y EXCEPT !.pc = "drain_payload",
                                           !.resid = n]]
    /\ UNCHANGED mainvars

\* orch_ipc_drain(), lines 231-254: one read of the payload loop
SysDrainPayload ==
    /\ wire.sys.pc = "drain_payload"
    /\ LET y == wire.sys
       IN  \E res \in {"EAGAIN", "EINTR", "EIO", "eof", "data"},
              n \in 1..MaxChunk :
              /\ IF res = "data" THEN n <= y.resid ELSE n = 1
              /\ wire' = [wire EXCEPT !.sys =
                    CASE res = "EAGAIN" -> SysAgain(y, "drain_poll")
                      [] res = "EINTR" ->
                            SysReturn([y EXCEPT !.intr = TRUE], -1, "EINTR")
                      [] res = "EIO" -> SysReturn(y, -1, "EIO")
                      [] res = "eof" ->
                            SysDrained([y EXCEPT !.fd = "closed", !.resid = 0,
                                                 !.eof = TRUE])
                      [] OTHER ->
                            IF n = y.resid
                            THEN [y EXCEPT !.resid = 0, !.queued = @ + 1,
                                           !.pc = "drain_hdr"]
                            ELSE [y EXCEPT !.resid = @ - n]]
    /\ UNCHANGED mainvars

\* orch_ipc_poll() called by orch_ipc_drain(), lines 239-242: select()
SysDrainPoll ==
    /\ wire.sys.pc = "drain_poll"
    /\ LET y == wire.sys
       IN  \E res \in {"ready", "EINTR", "EBADF"} :
              wire' = [wire EXCEPT !.sys =
                    CASE res = "ready" -> [y EXCEPT !.pc = "drain_payload"]
                      [] res = "EINTR" -> SysIntr(y, "drain_poll")
                      [] OTHER -> SysReturn(y, -1, "EBADF")]
    /\ UNCHANGED mainvars

\* orch_ipc_send(), lines 377-385: the write of the header; on EAGAIN the
\* call starts over with the drain.  A write on a descriptor of -1 fails.
SysSendHdr ==
    /\ wire.sys.pc = "send_hdr"
    /\ LET y == wire.sys
       IN  \E res \in {"EAGAIN", "EINTR", "EPIPE", "short", "ok"} :
              wire' = [wire EXCEPT !.sys =
                    IF y.fd = "closed" THEN SysReturn(y, -1, "EBADF")
                    ELSE CASE res = "EAGAIN" -> SysAgain(y, "drain_hdr")
                           [] res = "EINTR" ->
                                 SysReturn([y EXCEPT !.intr = TRUE], -1, "EINTR")
                           [] res = "EPIPE" -> SysReturn(y, -1, "EPIPE")
                           [] res = "short" -> SysReturn(y, -1, "EIO")
                           [] OTHER -> IF y.resid = 0
                                       THEN SysReturn(y, 0, "none")
                                       ELSE [y EXCEPT !.pc = "send_payload"]]
    /\ UNCHANGED mainvars

\* orch_ipc_send(), lines 387-399: one write of the payload loop
SysSendPayload ==
    /\ wire.sys.pc = "send_payload"
    /\ LET y == wire.sys
       IN  \E res \in {"EAGAIN", "EINTR", "EPIPE", "data"},
              n \in 1..MaxChunk :
              /\ IF res = "data" THEN n <= y.resid ELSE n = 1
              /\ wire' = [wire EXCEPT !.sys =
                    CASE res = "EAGAIN" -> SysAgain(y, "send_payload")
                      [] res = "EINTR" ->
                            SysReturn([y EXCEPT !.intr = TRUE], -1, "EINTR")
                      [] res = "EPIPE" -> SysReturn(y, -1, "EPIPE")
                      [] OTHER ->
                            IF n = y.resid
                            THEN SysReturn([y EXCEPT !.resid = 0], 0, "none")
                            ELSE [y EXCEPT !.resid = @ - n]]
    /\ UNCHANGED mainvars

\* orch_ipc_wait() with an empty queue: orch_ipc_poll(), lines 415-437
SysPoll ==
    /\ wire.sys.pc = "poll"
    /\ LET y == wire.sys
       IN  \E res \in {"ready", "EINTR", "EBADF"} :
              wire' = [wire EXCEPT !.sys =
                    CASE res = "ready" -> SysReturn(y, 1, "none")
                      [] res = "EINTR" -> SysIntr(y, "poll")
                      [] OTHER -> SysReturn(y, -1, "EBADF")]
    /\ UNCHANGED mainvars

\* orchlua_process_read(), lines 481-505: select() on the pty master
SysReadSelect ==
    /\ wire.sys.pc = "select"
    /\ LET y == wire.sys
       IN  \E res \in {"ready", "timeout", "EINTR", "EBADF"} :
              wire' = [wire EXCEPT !.sys =
                    CASE res = "ready" -> [y EXCEPT !.pc = "read"]
                      [] res = "timeout" -> SysReturn(y, 0, "none")
                      [] res = "EINTR" -> SysIntr(y, "select")
                      [] OTHER -> SysReturn(y, -1, "EBADF")]
    /\ UNCHANGED mainvars

\* orchlua_process_read(), lines 507-574: read() on the pty master; EIO
\* counts as end-of-file; the callback may ask for more
SysRead ==
    /\ wire.sys.pc = "read"
    /\ LET y == wire.sys
       IN  \E res \in {"data_done", "data_more", "eof", "EIO", "EINTR"} :
              wire' = [wire EXCEPT !.sys =
                    CASE res = "data_done" -> SysReturn(y, 0, "none")
                      [] res = "data_more" -> [y EXCEPT !.pc = "select"]
                      [] res \in {"eof", "EIO"} ->
                            SysReturn([y EXCEPT !.fd = "closed", !.eof = TRUE],
                                      0, "none")
                      [] OTHER ->
                            SysReturn([y EXCEPT !.intr = TRUE], -1, "EINTR")]
    /\ UNCHANGED mainvars

\* orchlua_process_write(), lines 594-607: one write() of the loop
SysWrite ==
    /\ wire.sys.pc = "write"
    /\ LET y == wire.sys
       IN  \E res \in {"EINTR", "EIO", "data"}, n \in 1..MaxChunk :
              /\ IF res = "data" THEN n <= y.resid ELSE n = 1
              /\ wire' = [wire EXCEPT !.sys =
                    CASE res = "EINTR" -> SysIntr(y, "write")
                      [] res = "EIO" -> SysReturn(y, -1, "EIO")
                      [] OTHER ->
                            IF n = y.resid
                            THEN SysReturn([y EXCEPT !.resid = 0], 0, "none")
                            ELSE [y EXCEPT !.resid = @ - n]]
    /\ UNCHANGED mainvars

SysNext ==
    \/ SysCall
    \/ SysDrainHdr
    \/ SysDrainPayload
    \/ SysDrainPoll
    \/ SysSendHdr
    \/ SysSendPayload
    \/ SysPoll
    \/ SysReadSelect
    \/ SysRead
    \/ SysWrite

SpecSys == WireInit /\ [][SysNext]_vars


(***************************************************************************)
(* Both endpoints send: orch_ipc_send() and orch_ipc_recv() in the parent  *)
(* and in the child, system call by system call, over a socketpair whose   *)
(* buffers hold SockBuf words in each direction.  A write on the           *)
(* non-blocking socket takes what fits and gives EAGAIN when nothing does. *)
(***************************************************************************)

\* The words a socket buffer holds
SockBuf == 3

Peer(e) == IF e = "parent" THEN "child" ELSE "parent"

\* The room left in the buffer that e writes to
DxFree(x, e) == SockBuf - Len(x.in[Peer(e)])

Min(a, b) == IF a < b THEN a ELSE b

\* orch_ipc_send(msg) is called with a payload of len words
DxSend ==
    /\ \E e \in Ends, len \in 0..MaxPayload :
          /\ wire.dx.pc[e] = "idle"
          /\ wire.dx.sends[e] < MaxMsgs
          /\ wire' = [wire EXCEPT !.dx =
                        [@ EXCEPT !.pc[e] = "drain_hdr", !.op[e] = "send",
                                  !.len[e] = len, !.sends[e] = @ + 1,
                                  !.rc[e] = 0, !.again[e] = FALSE]]
    /\ UNCHANGED mainvars

\* orch_ipc_recv() is called
DxRecv ==
    /\ \E e \in Ends :
          /\ wire.dx.pc[e] = "idle"
          /\ wire.dx.in[e] # <<>> \/ wire.dx.q[e] > 0
          /\ wire' = [wire EXCEPT !.dx =
                        [@ EXCEPT !.pc[e] = "drain_hdr", !.op[e] = "recv",
                                  !.rc[e] = 0, !.again[e] = FALSE]]
    /\ UNCHANGED mainvars

\* orch_ipc_drain(), lines 193-229: the read of a header.  On EAGAIN the
\* drain is over: orch_ipc_send() goes on to write its header,
\* orch_ipc_recv() pops the queue.
DxDrainHdr ==
    /\ \E e \in Ends :
          /\ wire.dx.pc[e] = "drain_hdr"
          /\ LET x == wire.dx
                 s == x.in[e]
                 n == Min(Len(s), HdrSize)
                 rest == SubSeq(s, n + 1, Len(s))
             IN  wire' = [wire EXCEPT !.dx =
                    IF s = <<>>
                    THEN IF x.op[e] = "send"
                         THEN [x EXCEPT !.pc[e] = "send_hdr"]
                         ELSE [x EXCEPT !.pc[e] = "idle",
                                        !.q[e] = IF @ > 0 THEN @ - 1 ELSE 0]
                    ELSE IF n < HdrSize \/ ~HdrValid(s[1], s[2])
                    THEN [x EXCEPT !.in[e] = rest, !.pc[e] = "idle",
                                   !.rc[e] = -1]
                    ELSE IF PayloadSize(s[1]) = 0
                    THEN [x EXCEPT !.in[e] = rest, !.q[e] = @ + 1]
                    ELSE [x EXCEPT !.in[e] = rest, !.pc[e] = "drain_payload",
                                   !.dres[e] = PayloadSize(s[1])]]
    /\ UNCHANGED mainvars

\* orch_ipc_drain(), lines 231-254: one read of the payload loop; with
\* nothing to read the drain waits in orch_ipc_poll()
DxDrainPayload ==
    /\ \E e \in Ends :
          /\ wire.dx.pc[e] = "drain_payload"
          /\ wire.dx.in[e] # <<>>
          /\ LET x == wire.dx
                 s == x.in[e]
                 n == Min(Len(s), x.dres[e])
                 rest == SubSeq(s, n + 1, Len(s))
             IN  wire' = [wire EXCEPT !.dx =
                    IF n = x.dres[e]
                    THEN [x EXCEPT !.in[e] = rest, !.dres[e] = 0,
                                   !.q[e] = @ + 1, !.pc[e] = "drain_hdr"]
                    ELSE [x EXCEPT !.in[e] = rest, !.dres[e] = @ - n]]
    /\ UNCHANGED mainvars

\* orch_ipc_send(), line 379: EAGAIN on the header
SendHdrAgain == "drain_hdr"

\* orch_ipc_send(), lines 377-385: the write of the header; on EAGAIN the
\* send goes back to the drain, a short write fails it with EIO
DxSendHdr ==
    /\ \E e \in Ends :
          /\ wire.dx.pc[e] = "send_hdr"
          /\ LET x == wire.dx
                 free == DxFree(x, e)
                 hdr == <<HdrSize + x.len[e], IPC_TERMIOS_SET>>
             IN  wire' = [wire EXCEPT !.dx =
                    IF free = 0
                    THEN [x EXCEPT !.pc[e] = SendHdrAgain, !.again[e] = TRUE]
                    ELSE IF free < HdrSize
                    THEN [x EXCEPT !.in[Peer(e)] = @ \o SubSeq(hdr, 1, free),
                                   !.pc[e] = "idle", !.rc[e] = -1]
                    ELSE [x EXCEPT !.in[Peer(e)] = @ \o hdr,
                                   !.again[e] = FALSE,
                                   !.pc[e] = IF x.len[e] = 0 THEN "idle"
                                             ELSE "send_payload"]]
    /\ UNCHANGED mainvars

\* orch_ipc_send(), lines 387-399: one write of the payload loop; on
\* EAGAIN the loop goes round again
DxSendPayload ==
    /\ \E e \in Ends, n \in 0..MaxChunk :
          /\ wire.dx.pc[e] = "send_payload"
          /\ LET x == wire.dx
                 free == DxFree(x, e)
             IN  /\ IF free = 0 THEN n = 0
                    ELSE n >= 1 /\ n <= Min(free, x.len[e])
                 /\ wire' = [wire EXCEPT !.dx =
                       IF n = 0
                       THEN [x EXCEPT !.again[e] = TRUE]
                       ELSE [x EXCEPT
                               !.in[Peer(e)] = @ \o [i \in 1..n |-> 0],
                               !.len[e] = @ - n, !.again[e] = FALSE,
                               !.pc[e] = IF x.len[e] = n THEN "idle"
                                         ELSE "send_payload"]]
    /\ UNCHANGED mainvars

DxNext ==
    \/ DxSend
    \/ DxRecv
    \/ DxDrainHdr
    \/ DxDrainPayload
    \/ DxSendHdr
    \/ DxSendPayload

SpecDuplex == WireInit /\ [][DxNext]_vars

\* Every step of either endpoint is taken if it stays possible
FairDuplex ==
    SpecDuplex /\ WF_vars(DxSend) /\ WF_vars(DxRecv) /\ WF_vars(DxDrainHdr)
               /\ WF_vars(DxDrainPayload) /\ WF_vars(DxSendHdr)
               /\ WF_vars(DxSendPayload)


(***************************************************************************)
(* The control characters of the terminal handle: cc as fetch() renders    *)
(* it (orchlua_term_fetch_cc()) and as update() reads it back              *)
(* (orchlua_term_update_cc()), one slot of c_cc[] at a time.  A string is  *)
(* the sequence of its bytes.                                              *)
(***************************************************************************)

\* orchlua_cntrl_chars[]: the slots and whether each is CNTRL_LITERAL
orchlua_cntrl_chars ==
    [VEOF |-> FALSE, VEOL |-> FALSE, VERASE |-> FALSE, VINTR |-> FALSE,
     VKILL |-> FALSE, VMIN |-> TRUE, VQUIT |-> FALSE, VSUSP |-> FALSE,
     VTIME |-> TRUE, VSTART |-> FALSE, VSTOP |-> FALSE, VSTATUS |-> FALSE]

CcSlots == DOMAIN orchlua_cntrl_chars

\* _POSIX_VDISABLE is 0 on some systems and 0xff on others
VDisableVals == {0, 255}

\* The bytes '^', '?', '@' and '_'
Caret == 94
Question == 63
CharAt == 64
CharUnderscore == 95

\* (char)c of lua_pushfstring("%c") and cc_t: one byte
Byte(n) == n % 256

\* What a new pty has in each slot (the system's defaults), as the child
\* reads it with tcgetattr() and the TERMIOS_SET reply carries it
CcDefault(slot, vdisable) ==
    CASE slot = "VEOF" -> 4
      [] slot = "VEOL" -> vdisable
      [] slot = "VERASE" -> 127
      [] slot = "VINTR" -> 3
      [] slot = "VKILL" -> 21
      [] slot = "VMIN" -> 1
      [] slot = "VQUIT" -> 28
      [] slot = "VSUSP" -> 26
      [] slot = "VTIME" -> 0
      [] slot = "VSTART" -> 17
      [] slot = "VSTOP" -> 19
      [] OTHER -> 20

FetchCc_NoDelete(slot, cc, vdisable) ==
    IF orchlua_cntrl_chars[slot] THEN LuaNumber(cc)
    ELSE IF cc = vdisable THEN LuaString(<<>>)
    ELSE LuaString(<<Caret, Byte(cc + 64)>>)

\* orchlua_term_fetch_cc(), lines 77-86: the value pushed for one slot
FetchCc(slot, cc, vdisable) ==
    IF orchlua_cntrl_chars[slot] THEN LuaNumber(cc)
    ELSE IF cc = vdisable THEN LuaString(<<>>)
    ELSE IF cc = 127 THEN LuaString(<<Caret, Question>>)
    ELSE LuaString(<<Caret, Byte(cc + 64)>>)

\* The digits of a decimal numeral, as lua_tonumberx() converts a string
RECURSIVE Numeral(_)
Numeral(s) ==
    IF s = <<>> THEN 0 ELSE 10 * Numeral(SubSeq(s, 1, Len(s) - 1))
                            + (s[Len(s)] - 48)

IsNumeral(s) == Len(s) > 0 /\ \A i \in 1..Len(s) : s[i] \in 48..57

\* orchlua_term_update_cc(), lines 137-189, for one slot: rc is 0 and cc
\* the value stored, or rc is -1 (fail and a message are returned) and cc
\* is as it was; a nil field is skipped
UpdateCc(slot, v, cc, vdisable) ==
    IF v.type = "nil" THEN [rc |-> 0, cc |-> cc]
    ELSE IF orchlua_cntrl_chars[slot]
    THEN IF v.type = "number" THEN [rc |-> 0, cc |-> Byte(v.n)]
         ELSE IF v.type = "string" /\ IsNumeral(v.s)
         THEN [rc |-> 0, cc |-> Byte(Numeral(v.s))]
         ELSE [rc |-> -1, cc |-> cc]
    ELSE IF v.type # "string" THEN [rc |-> -1, cc |-> cc]
    ELSE IF Len(v.s) = 0 THEN [rc |-> 0, cc |-> vdisable]
    ELSE IF Len(v.s) # 2 \/ v.s[1] # Caret THEN [rc |-> -1, cc |-> cc]
    ELSE IF v.s[2] # Question /\ (v.s[2] < CharAt \/ v.s[2] > CharUnderscore)
    THEN [rc |-> -1, cc |-> cc]
    ELSE IF v.s[2] = Question THEN [rc |-> 0, cc |-> 127]
    ELSE [rc |-> 0, cc |-> v.s[2] - 64]

\* The numbers and strings a script hands to update() for a slot
CcNumbers == {0, 1, 2, 127, 128, 255}

CcStrings ==
    {<<>>, <<65>>, <<Caret>>, <<65, 66>>, <<Caret, 67, 67>>, <<49>>,
     <<Caret, 32>>, <<Caret, 191>>}
       \cup {<<Caret, c>> : c \in Question..(CharUnderscore + 1)}

CcInputs ==
    {LuaBoolean} \cup {LuaNumber(n) : n \in CcNumbers}
                 \cup {LuaString(str) : str \in CcStrings}

\* orchlua_term_set(): term() makes the handle from the child's snapshot
TtyTerm ==
    /\ wire.tty.pc = "none"
    /\ \E slot \in CcSlots, vd \in VDisableVals :
          wire' = [wire EXCEPT !.tty =
                      [TtyIdle EXCEPT !.pc = "term", !.vdisable = vd,
                                      !.slot = slot,
                                      !.cc = CcDefault(slot, vd)]]
    /\ UNCHANGED mainvars

\* term:fetch("cc")
TtyFetch ==
    /\ wire.tty.pc = "term"
    /\ LET y == wire.tty
       IN  wire' = [wire EXCEPT !.tty =
                       [y EXCEPT !.fetched = FetchCc(y.slot, y.cc, y.vdisable),
                                 !.fcc = y.cc, !.rc = 0, !.rt = FALSE,
                                 !.before = 0]]
    /\ UNCHANGED mainvars

\* term:update({cc = {slot = v}}) with a value of the script's
TtyUpdate ==
    /\ wire.tty.pc = "term"
    /\ LET y == wire.tty
       IN  \E v \in CcInputs :
              LET u == UpdateCc(y.slot, v, y.cc, y.vdisable)
              IN  wire' = [wire EXCEPT !.tty =
                              [y EXCEPT !.cc = u.cc, !.rc = u.rc,
                                        !.fetched = LuaNil, !.fcc = 0,
                                        !.rt = FALSE, !.before = 0]]
    /\ UNCHANGED mainvars

\* term:update({cc = {slot = v}}) with the value fetch() has returned
TtyUpdateFetched ==
    /\ wire.tty.pc = "term"
    /\ wire.tty.fetched # LuaNil
    /\ LET y == wire.tty
           u == UpdateCc(y.slot, y.fetched, y.cc, y.vdisable)
       IN  wire' = [wire EXCEPT !.tty =
                       [y EXCEPT !.cc = u.cc, !.rc = u.rc, !.rt = TRUE,
                                 !.before = y.cc]]
    /\ UNCHANGED mainvars

TtyNext ==
    \/ TtyTerm
    \/ TtyFetch
    \/ TtyUpdate
    \/ TtyUpdateFetched

SpecTty == WireInit /\ [][TtyNext]_vars


(***************************************************************************)
(* The claims                                                              *)
(***************************************************************************)

SpawnReturned == hist.spawnRet # "none"

\* C1, as stated: whenever spawn has returned, the parent has received a
\* RELEASE sent by the child.
C1_SpawnReturnsAfterRelease == SpawnReturned => hist.gotRelease

\* C2: the child calls exec only after it has received a RELEASE sent by
\* the parent's release().
C2_ExecOnlyAfterRelease == hist.cExec => hist.cGotRelease

\* C3: orch_ipc_recv() never fails on what orch_ipc_send() wrote; every
\* message it has returned is the message that was sent at that position,
\* with the same tag and the same payload, word for word; and no message
\* is lost: once nothing is left in the socket or in the queue, every
\* message sent has been returned.
C3_RoundTrip ==
    /\ wire.rc = 0
    /\ Len(wire.got) <= Len(wire.sent)
    /\ \A i \in 1..Len(wire.got) :
          /\ wire.got[i].tag = wire.sent[i].tag
          /\ Len(wire.got[i].data) = Len(wire.sent[i].data)
          /\ wire.got[i].data = wire.sent[i].data
    /\ (/\ wire.rx = "idle"
        /\ ~wire.sending
        /\ wire.stream = <<>>
        /\ wire.q = <<>>) => wire.got = wire.sent

\* a message with a payload of the largest size has been received
C3_Witness ==
    /\ Len(wire.got) = 1
    /\ Len(wire.got[1].data) = MaxPayload
    /\ wire.got[1].data[1] # wire.got[1].data[MaxPayload]

CloseReturned == ppc = "idle" /\ ret.op = "close"

\* C4: once the alarm has interrupted the wait that followed SIGINT and
\* SIGKILL has been sent, close() eventually returns, with the child
\* reaped, and reports failure.
C4_Escalation ==
    (ppc = "close_wait" /\ loc.esc)
        ~> (CloseReturned /\ ~ret.ok /\ ret.esc /\ hist.sigkill > 0
            /\ proc.pid = 0 /\ cpc = "reaped")

\* close() has returned after an escalation
C4_Witness == CloseReturned /\ ret.esc /\ ~ret.ok

\* C5, as stated: close() fails only if SIGKILL was needed and succeeds in
\* every other case; after a normal exit of the child it succeeds and
\* sends no signal.
C5_FailureOnlyOnEscalation ==
    CloseReturned =>
        /\ ~ret.ok <=> ret.esc
        /\ ret.normal => (ret.ok /\ ret.nsig = 0)

\* C5, amended: close() fails if and only if SIGKILL was needed or the
\* child is found, unreaped, to have been terminated by a signal; after a
\* normal exit of the child it succeeds and sends no signal.
C5_FailureOnEscalationOrSignal ==
    CloseReturned =>
        /\ ~ret.ok <=> (ret.esc \/ ret.zsig)
        /\ ret.normal => (ret.ok /\ ret.nsig = 0)

\* close() has found the child terminated by a signal and reported failure
C5_Witness == CloseReturned /\ ~ret.ok /\ ret.zsig /\ ~ret.esc

\* C6: whenever close() has returned, the Channel is closed and released,
\* the pty master is closed and the process id is cleared.
C6_CloseReleasesAll ==
    CloseReturned =>
        /\ proc.ipc = "NULL"
        /\ proc.termctl = "closed"
        /\ proc.pid = 0

\* C7: no descriptor is closed twice and no Channel freed twice, and a
\* close() that follows an earlier close() returns success.
C7_CloseIdempotent ==
    /\ hist.termCloses <= 1
    /\ hist.ipcFrees <= 1
    /\ hist.sockCloses <= 1
    /\ (CloseReturned /\ ret.prior) => ret.ok

\* a second close() has returned, and the first had a Channel to free
C7_Witness == CloseReturned /\ ret.prior /\ hist.ipcFrees = 1

\* C8: whenever read() has returned after end-of-file, the eof flag is set,
\* the pty master is closed, the child is reaped, and the result is an
\* error exactly if the child was terminated by a signal.
C8_ReadEofReaps ==
    (ppc = "idle" /\ ret.op = "read" /\ ret.eof) =>
        /\ proc.eof
        /\ proc.termctl = "closed"
        /\ proc.pid = 0
        /\ ~ret.ok <=> WIFSIGNALED(cstat)

ChildEnded == cpc \in {"exiting", "zombie", "reaped"}

\* C9, as stated: once release() has sent RELEASE to a child waiting in the
\* handshake, the child eventually calls exec.
C9_ReleaseLeadsToExec == hist.relWaiting ~> hist.cExec

\* C9, amended: once release() has sent RELEASE to a child waiting in the
\* handshake, the child eventually closes its endpoint and calls exec,
\* unless the SIGINT or SIGKILL of a close() terminates it first.
C9_ReleaseLeadsToExecOrSignal ==
    hist.relWaiting ~>
        \/ hist.cExec /\ ~IpcOkay(cipc)
        \/ ChildEnded /\ cstat.sig \in {"SIGINT", "SIGKILL"}

\* the released child has received RELEASE and called exec
C9_Witness == hist.relWaiting /\ hist.cGotRelease /\ hist.cExec

\* C10: a snapshot returned by term() equals the attributes the child
\* captured from the pty slave, which are the child's current attributes.
C10_TermSnapshot ==
    (ppc = "idle" /\ ret.op = "term" /\ ret.ok) =>
        /\ proc.term = hist.captured
        /\ proc.term = ct
        /\ ~proc.released

\* term() has returned a snapshot
C10_Witness == ppc = "idle" /\ ret.op = "term" /\ ret.ok /\ proc.term \in Termios

UpdateReturned == ppc = "idle" /\ ret.op = "update"

OtherFields(f) == ScriptFields \ {f}

\* C11: whenever update() naming lflag with value X has returned success,
\* a fetch on the handle gives X for lflag and, for iflag, oflag, cflag and
\* cc, what it gave before the call.
C11_UpdateLflagFrame ==
    (UpdateReturned /\ ret.ok /\ ret.field = "lflag") =>
        /\ Fetch(proc.term, "lflag") = ret.val
        /\ \A g \in OtherFields("lflag") :
              Fetch(proc.term, g) = Fetch(ret.old, g)

\* update() of lflag has succeeded and changed the local flag word, on a
\* handle whose other words are not zero
C11_Witness ==
    /\ UpdateReturned /\ ret.ok /\ ret.field = "lflag"
    /\ ret.val # ret.old.lflag
    /\ ret.old.iflag # 0

\* The update() in progress or last returned, once its message was built
UpdateCall == IF ppc = "upd_wait" THEN loc ELSE ret

\* C12: the snapshot update() places in its TERMIOS_SET message has the
\* named field, any of iflag, oflag, cflag, lflag and cc, equal to the
\* value given, and every other field equal to its value in the old
\* snapshot.
C12_UpdateEveryField ==
    UpdateCall.sent # NoTermios =>
        /\ Fetch(UpdateCall.sent, UpdateCall.field) = UpdateCall.val
        /\ \A g \in OtherFields(UpdateCall.field) :
              Fetch(UpdateCall.sent, g) = Fetch(UpdateCall.old, g)

\* C13: a call of orch_ipc_register() that installs a handler for a tag
\* which already has one fails and leaves the handler it found in place.
C13_SecondRegistrationFails ==
    (wire.reg.prev # "none" /\ wire.reg.new # "none") =>
        /\ wire.reg.rc # 0
        /\ wire.ipc.cb[wire.reg.tag] = wire.reg.prev

(***************************************************************************)
(* C14: after the child has sent an ERROR message it sends no further     *)
(* message, never calls exec on the target, and terminates with a         *)
(* non-zero exit status.                                                   *)
(***************************************************************************)
ErrorIsLastSent ==
    hist.errSent => /\ hist.cTx # <<>>
                    /\ hist.cTx[Len(hist.cTx)].tag = IPC_ERROR
                    /\ \A i \in 1..(Len(hist.cTx) - 1) :
                          hist.cTx[i].tag # IPC_ERROR

\* Every setup failure leads to orch_child_error(): a child that leaves
\* session creation or the setup of the slave goes on to exec, is killed,
\* or sends ERROR
SetupFailureReports ==
    (cpc \in {"newsess", "usept"} /\ cpc' \notin {"newsess", "usept"})
        => cpc' \in {"usept", "exec", "err_send", "exiting"}

C14_ErrorThenExitNonZero ==
    /\ [](ErrorIsLastSent /\ (hist.errSent => ~hist.cExec))
    /\ hist.errSent ~> (ChildEnded /\ cstat.sig = "none" /\ cstat.code # 0)
    /\ [][SetupFailureReports]_vars

\* C14, amended: after the child has sent an ERROR message it sends no
\* further message and never calls exec on the target; once the parent has
\* closed its end of the channel the child terminates, and it terminates
\* with a non-zero exit status unless the SIGINT or SIGKILL of a close() in
\* the parent ends it first.
C14_ErrorThenExitOrSignal ==
    /\ [](ErrorIsLastSent /\ (hist.errSent => ~hist.cExec))
    /\ []((hist.errSent /\ ChildEnded)
            => \/ cstat.sig \in {"SIGINT", "SIGKILL"}
               \/ cstat.sig = "none" /\ cstat.code # 0)
    /\ (hist.errSent /\ ParentEof) ~> ChildEnded
    /\ [][SetupFailureReports]_vars

C14_Witness ==
    /\ hist.errSent
    /\ ChildEnded
    /\ cstat.sig = "none"
    /\ cstat.code # 0
    /\ ~hist.cExec
    /\ hist.cTx = <<Msg(IPC_ERROR, <<1>>)>>

(***************************************************************************)
(* C15: after a failed handshake (orch_spawn() returned without the       *)
(* child's RELEASE) or a protocol violation (a term() or an update()      *)
(* received something other than the reply it waited for), every later    *)
(* term(), update() and release() on the handle returns failure.          *)
(***************************************************************************)
HandshakeFailed == hist.spawnRet \in {"eof", "error"}

C15_BrokenHandleUnusable ==
    (HandshakeFailed \/ hist.violation)
        => (ret.op \in {"term", "update", "release"} => ~ret.ok)

\* C15, the part that holds: after a failed handshake every later term(),
\* update() and release() returns failure
C15_FailedHandshakeUnusable ==
    HandshakeFailed => (ret.op \in {"term", "update", "release"} => ~ret.ok)

(***************************************************************************)
(* C16: no send, receive, wait_readable, read or write returns failure    *)
(* because a system call inside it would have blocked (EAGAIN) or was     *)
(* interrupted by a signal (EINTR).                                        *)
(***************************************************************************)
SysFailed == wire.sys.op # "none" /\ wire.sys.pc = "idle" /\ wire.sys.rc = -1

C16_RetriedTransparently ==
    SysFailed => wire.sys.errno \notin {"EAGAIN", "EINTR"}

\* C16, the part that holds: a would-block result never fails an
\* operation, and an interrupted select() never does
C16_WouldBlockRetried ==
    /\ SysFailed => wire.sys.errno # "EAGAIN"
    /\ (SysFailed /\ wire.sys.op = "wait_readable") => wire.sys.errno # "EINTR"
    /\ (SysFailed /\ wire.sys.op = "write") => wire.sys.errno # "EINTR"

(***************************************************************************)
(* C17: at most one termios request of the parent is unanswered at any    *)
(* time: a request is outstanding exactly while the term() or update()    *)
(* that sent it waits, and a call that returns success has consumed the   *)
(* matching response.                                                      *)
(***************************************************************************)
CountTags(log, tags) == Cardinality({i \in 1..Len(log) : log[i].tag \in tags})

\* The requests sent whose call has not finished its wait for the reply
Unanswered ==
    CountTags(hist.pTx, {IPC_TERMIOS_INQUIRY, IPC_TERMIOS_SET}) - hist.reqDone

LastTag(log) == IF log = <<>> THEN IPC_NOXMIT ELSE log[Len(log)].tag

C17_NoPipelining ==
    /\ Unanswered \in {0, 1}
    /\ (Unanswered = 1) <=> (ppc \in {"term_wait", "upd_wait"})
    /\ CountTags(hist.pRx, {IPC_TERMIOS_SET, IPC_TERMIOS_ACK}) <= hist.reqDone
    /\ (ppc = "idle" /\ ret.op = "term" /\ ret.ok)
          => /\ LastTag(hist.pRx) = IPC_TERMIOS_SET
             /\ LastTag(hist.pTx) = IPC_TERMIOS_INQUIRY
    /\ (ppc = "idle" /\ ret.op = "update" /\ ret.ok)
          => /\ LastTag(hist.pRx) = IPC_TERMIOS_ACK
             /\ LastTag(hist.pTx) = IPC_TERMIOS_SET

C17_Witness ==
    /\ ppc = "idle"
    /\ ret.op = "update"
    /\ ret.ok
    /\ hist.reqDone = 2
    /\ CountTags(hist.pTx, {IPC_TERMIOS_INQUIRY, IPC_TERMIOS_SET}) = 2
    /\ CountTags(hist.pRx, {IPC_TERMIOS_SET, IPC_TERMIOS_ACK}) = 2

(***************************************************************************)
(* C18: the receive queue holds only complete messages: each has a valid  *)
(* header and the whole payload its header declared; a message cut short  *)
(* by end-of-file or by a read error is never in the queue.                *)
(***************************************************************************)
\* A message as orch_ipc_drain() must have built it: a valid header, its
\* tag, and a payload of the size the header declares
Complete(m, hdr) ==
    /\ HdrValid(hdr[1], hdr[2])
    /\ m.tag = hdr[2]
    /\ Len(m.data) = PayloadSize(hdr[1])

C18_QueueHoldsComplete ==
    /\ Len(wire.qh) = Len(wire.q)
    /\ Len(wire.gh) = Len(wire.got)
    /\ \A i \in 1..Len(wire.q) : Complete(wire.q[i], wire.qh[i])
    /\ \A i \in 1..Len(wire.got) : Complete(wire.got[i], wire.gh[i])
    /\ wire.rx = "payload"
          => /\ HdrValid(wire.hdr[1], wire.hdr[2])
             /\ wire.resid > 0
             /\ Len(wire.data) + wire.resid = PayloadSize(wire.hdr[1])
    /\ wire.rx # "payload" => (wire.data = <<>> /\ wire.resid = 0)

\* the sender went away in the middle of a payload, the drain read part of
\* it and then end-of-file, and the queue was left without the message
C18_Witness ==
    /\ wire.shut
    /\ wire.sending
    /\ wire.tx # <<>>
    /\ Len(wire.tx) < Len(wire.sent[Len(wire.sent)].data)
    /\ ~IpcOkay(wire.ipc)
    /\ wire.rx = "idle"
    /\ wire.stream = <<>>
    /\ wire.q = <<>>

(***************************************************************************)
(* C19: the messages an endpoint has dispatched to handlers or returned   *)
(* from receive are, in order, the first messages its peer sent, each     *)
(* once; those still queued follow in the order sent.                      *)
(***************************************************************************)
IsPrefix(a, b) == Len(a) <= Len(b) /\ a = SubSeq(b, 1, Len(a))

C19_ArrivalOrder ==
    /\ IsPrefix(wire.got \o wire.ipc.q, wire.sent)
    /\ wire.stream = <<>> => wire.got \o wire.ipc.q = wire.sent

\* two different messages were queued together and then both delivered,
\* the first of them to a handler
C19_Witness ==
    /\ Len(wire.got) = MaxMsgs
    /\ wire.got[1] # wire.got[2]
    /\ wire.got[1].tag = IPC_ERROR
    /\ wire.got = wire.sent

(***************************************************************************)
(* C20: the released, eof and error flags of the handle are latched: no   *)
(* step of any operation and no received message takes one of them from   *)
(* true back to false.                                                     *)
(***************************************************************************)
FlagsKept ==
    /\ proc.released => proc'.released
    /\ proc.eof => proc'.eof
    /\ proc.error => proc'.error

C20_FlagsLatched == [][FlagsKept]_vars

\* close() has returned on a handle that had received the child's ERROR
\* and was released afterwards
C20_Witness ==
    /\ CloseReturned
    /\ proc.released
    /\ proc.error

(***************************************************************************)
(* C21: a send or a receive that fails on a malformed header or on a hard *)
(* read or write error leaves the descriptor of the channel as it was and *)
(* the queue as it was; the descriptor is closed only by a read that      *)
(* returned end-of-file.                                                   *)
(***************************************************************************)
SysInChannelOp == wire.sys.op \in {"send", "receive"} /\ wire.sys.pc # "idle"

TransportErrorKeeps ==
    SysInChannelOp =>
       /\ (wire'.sys.pc = "idle" /\ wire'.sys.rc = -1)
             => /\ wire'.sys.fd = wire.sys.fd
                /\ wire'.sys.queued = wire.sys.queued
       /\ wire'.sys.fd # wire.sys.fd
             => /\ wire'.sys.fd = "closed"
                /\ wire'.sys.eof
                /\ ~wire.sys.eof

C21_TransportErrorKeepsChannel == [][TransportErrorKeeps]_vars

\* a receive failed on a malformed header after it had queued a message,
\* and the descriptor is still open
C21_Witness ==
    /\ wire.sys.op = "receive"
    /\ wire.sys.pc = "idle"
    /\ wire.sys.rc = -1
    /\ wire.sys.errno = "EINVAL"
    /\ wire.sys.queued > 0
    /\ wire.sys.fd = "open"

\* C22: the descriptor of the Channel is closed at most once, by the drain
\* at end-of-file or by orch_ipc_close(); it has been closed exactly once
\* when the Channel is freed; once the Channel is freed the handle holds
\* no pointer to it, and no later operation closes, frees or changes it.
ChannelClosedOnce ==
    /\ hist.sockCloses <= 1
    /\ (hist.sockCloses = 1) <=> ~IpcOkay(pipc)
    /\ hist.ipcFrees >= 1 =>
          /\ hist.ipcFrees = 1
          /\ hist.sockCloses = 1
          /\ proc.ipc = "NULL"

FreedChannelUntouched ==
    hist.ipcFrees >= 1 =>
        /\ pipc' = pipc
        /\ hist'.ipcFrees = hist.ipcFrees
        /\ hist'.sockCloses = hist.sockCloses

C22_ChannelCloseIdempotent ==
    [](ChannelClosedOnce) /\ [][FreedChannelUntouched]_vars

\* close() has returned after release() had closed and freed the Channel
C22_Witness ==
    /\ CloseReturned
    /\ proc.released
    /\ hist.ipcFrees = 1
    /\ hist.sockCloses = 1

\* C23: a value that fetch() has produced for a control-character slot is
\* accepted by update() and decodes to the value it was produced from: the
\* empty string, ^X and ^? for the slots that are not literal, the integer
\* for VMIN and VTIME; an update() with the fetched value succeeds and
\* leaves the slot as it was.
C23_CcRoundTrips ==
    LET y == wire.tty
    IN  /\ y.fetched # LuaNil =>
              /\ UpdateCc(y.slot, y.fetched, 0, y.vdisable).rc = 0
              /\ UpdateCc(y.slot, y.fetched, 0, y.vdisable).cc = y.fcc
              /\ orchlua_cntrl_chars[y.slot] => y.fetched = LuaNumber(y.fcc)
              /\ ~orchlua_cntrl_chars[y.slot] =>
                    /\ y.fetched.type = "string"
                    /\ (y.fcc = y.vdisable) <=> (y.fetched.s = <<>>)
        /\ y.rt => /\ y.rc = 0
                   /\ y.cc = y.before

\* the delete character, set by an update, has been fetched as ^? and
\* handed back to update()
C23_Witness ==
    /\ wire.tty.rt
    /\ wire.tty.slot = "VINTR"
    /\ wire.tty.fetched = LuaString(<<Caret, Question>>)
    /\ wire.tty.cc = 127

\* C24, as stated: there is no state in which both endpoints are retrying
\* a would-block write, of the header or of the payload, while neither
\* drains its inbound data.
DxRetrying(e) ==
    /\ wire.dx.pc[e] \in {"send_hdr", "send_payload"}
    /\ wire.dx.again[e]
    /\ DxFree(wire.dx, e) = 0

C24_NoMutualRetry == ~(DxRetrying("parent") /\ DxRetrying("child"))

\* C24, as stated: every send that has begun returns.
C24_SendCompletes ==
    \A e \in Ends : (wire.dx.pc[e] # "idle") ~> (wire.dx.pc[e] = "idle")

\* C24: what the code keeps: an endpoint that found the buffer full when
\* it wrote its header drains its inbound data before it writes again.
DxHdrRetryDrains ==
    \A e \in Ends :
        (wire.dx.pc[e] = "send_hdr" /\ DxFree(wire.dx, e) = 0
           /\ wire'.dx.pc[e] # wire.dx.pc[e])
              => wire'.dx.pc[e] = "drain_hdr"

C24_HeaderRetryDrains == [][DxHdrRetryDrains]_vars

\* an endpoint is back in the drain after EAGAIN on its header
C24_Witness ==
    \E e \in Ends : wire.dx.pc[e] = "drain_hdr" /\ wire.dx.again[e]

\* C25, as stated: no operation dereferences a Channel that release() or
\* close() has destroyed; a term() called after the Channel is gone
\* returns the failure "process already released".
C25_NoUseAfterDestroy == hist.fault # "ipc"

\* C26: a TERMIOS_SET that the child takes off its queue while it waits to
\* be released replaces the snapshot; then either the terminal has the new
\* attributes and exactly one TERMIOS_ACK is sent, or tcsetattr() failed,
\* nothing is sent and the child goes on to orch_child_error().  The child
\* has sent one ACK for each TERMIOS_SET unless an apply failed; after a
\* failed apply it sends ERROR as its last message, no ACK, and does not
\* call exec.
ChildTakesSet ==
    /\ cpc = "pop"
    /\ cipc.q # <<>>
    /\ Head(cipc.q).tag = IPC_TERMIOS_SET
    /\ hist'.cRx # hist.cRx

SetAppliedThenAcked ==
    ChildTakesSet =>
        /\ ct' = WordsTermios(Head(cipc.q).data)
        /\ \/ /\ ptyattr' = ct'
              /\ hist'.cTx = Append(hist.cTx, Msg(IPC_TERMIOS_ACK, <<>>))
              /\ cpc' = "pop"
           \/ /\ ptyattr' = ptyattr
              /\ hist'.cTx = hist.cTx
              /\ cpc' = "err_send"

SetsAndAcks ==
    LET nSet == CountTags(hist.cRx, {IPC_TERMIOS_SET})
        nAck == CountTags(hist.cTx, {IPC_TERMIOS_ACK})
    IN  /\ nAck <= nSet
        /\ cpc \in {"wait", "pop"} => nAck = nSet
        /\ nAck < nSet =>
              /\ ~hist.cExec
              /\ cpc \in {"err_send", "close_start", "close_drain",
                           "close_pop", "do_exec", "exiting", "zombie",
                           "reaped"}
              /\ cerr # 0 \/ cpc = "err_send"
              /\ cpc # "err_send" =>
                    /\ LastTag(hist.cTx) = IPC_ERROR
                    /\ CountTags(hist.cTx, {IPC_ERROR}) = 1

TakenNow == SubSeq(hist'.pRx, Len(hist.pRx) + 1, Len(hist'.pRx))

TermReturns ==
    (ppc = "term_wait" /\ ppc' = "idle") =>
        LET sets == {i \in 1..Len(TakenNow) :
                        TakenNow[i].tag = IPC_TERMIOS_SET}
            others == {i \in 1..Len(TakenNow) :
                          TakenNow[i].tag \notin {IPC_TERMIOS_SET, IPC_ERROR}}
        IN  /\ ret'.op = "term"
            /\ ret'.ok => /\ sets # {}
                          /\ others = {}
                          /\ \E i \in sets :
                                proc'.term = WordsTermios(TakenNow[i].data)
            /\ (sets = {} \/ others # {}) =>
                    /\ ~ret'.ok
                    /\ proc'.term = NoTermios

UpdateReturns ==
    (ppc = "upd_wait" /\ ppc' = "idle") =>
        /\ ret'.op = "update"
        /\ ret'.ok <=> LastTag(TakenNow) = IPC_TERMIOS_ACK
        /\ ret'.ok => CountTags(TakenNow, Tags \ {IPC_ERROR}) = 1

C27_ReplyDecidesResult == [][TermReturns /\ UpdateReturns]_vars

\* update() has failed: the child answered its TERMIOS_SET with ERROR,
\* which went to the error handler, and no message was handed back
C27_Witness ==
    /\ ppc = "idle"
    /\ ret.op = "update"
    /\ ~ret.ok
    /\ ret.why = "unknown unexpected message received"
    /\ LastTag(hist.pTx) = IPC_TERMIOS_SET
    /\ LastTag(hist.pRx) = IPC_ERROR

\* C28: in a receive, or in the last pop of a close, the messages are taken
\* off the queue in order up to the first whose handler fails or, in a
\* receive, the first that has no handler.  When a handler fails the call
\* returns failure, hands no message back and takes nothing more; the
\* messages behind stay queued in order.  A message without a handler is
\* handed back by a receive; the pop of a close frees it and goes on.
HandlerFails(c, m) ==
    c.cb[m.tag] = "term_set" /\ Len(m.data) # TermiosSize

PopStops(c, m) ==
    HandlerFails(c, m) \/ (c.op = "recv" /\ c.cb[m.tag] = "none")

C28_HandlerFailureStopsReceive ==
    LET c == wire.call
        stops == {i \in 1..Len(c.q0) : PopStops(c, c.q0[i])}
        k == IF stops = {} THEN Len(c.q0)
             ELSE CHOOSE i \in stops : \A j \in stops : i <= j
    IN  c.op \in {"recv", "close"} =>
          /\ c.taken = SubSeq(c.q0, 1, k)
          /\ wire.ipc.q = SubSeq(c.q0, k + 1, Len(c.q0))
          /\ stops = {} => c.rc = 0 /\ c.msg = NullMsg
          /\ stops # {} =>
                IF HandlerFails(c, c.q0[k])
                THEN c.rc = -1 /\ c.msg = NullMsg
                ELSE c.rc = 0 /\ c.msg = c.q0[k]

\* a receive in which the handler of the first of two queued messages
\* failed: the second is still queued
C28_Witness ==
    /\ wire.call.op = "recv"
    /\ wire.call.rc = -1
    /\ Len(wire.call.q0) = 2
    /\ wire.call.taken = <<wire.call.q0[1]>>
    /\ wire.ipc.q = <<wire.call.q0[2]>>

\* C29, as stated: when a send has returned, every message its drain found
\* on the socket that has a registered handler has been dispatched to it:
\* none is left on the queue.
C29_SendDrainsAndDispatches ==
    wire.call.op = "send" =>
        \A i \in 1..Len(wire.ipc.q) :
            wire.call.cb[wire.ipc.q[i].tag] = "none"

\* C30, as stated: no read() and no write() uses the descriptor of the pty
\* master once an end-of-file or close() has closed it: a read() called
\* with the eof flag set, or after close(), does not pass the descriptor
\* to select() or read().
C30_NoUseOfClosedMaster == ~hist.usedClosed

\* C31, as stated: orchlua_process_killed() is never entered with the
\* process id already cleared, so its assertion never fails.
C31_ReapAssertionHolds == hist.fault # "assert"

(***************************************************************************)
(* C32: the child has both termios handlers registered from its first     *)
(* RELEASE on, and every termios request the parent has sent is            *)
(* eventually taken by the child's handler and answered with TERMIOS_SET,  *)
(* TERMIOS_ACK or ERROR, under fair scheduling.                            *)
(***************************************************************************)
TermiosRequests == {IPC_TERMIOS_INQUIRY, IPC_TERMIOS_SET}

HandlersRegistered ==
    /\ cipc.cb[IPC_TERMIOS_INQUIRY] = "inquiry"
    /\ cipc.cb[IPC_TERMIOS_SET] = "set"

RequestPending ==
    CountTags(hist.pTx, TermiosRequests) > CountTags(hist.cRx, TermiosRequests)

RequestsServiced ==
    /\ CountTags(hist.pTx, TermiosRequests)
          = CountTags(hist.cRx, TermiosRequests)
    /\ LastTag(hist.cTx) \in {IPC_TERMIOS_SET, IPC_TERMIOS_ACK, IPC_ERROR}

C32_RequestsServiced ==
    /\ [](cpc \in {"wait", "pop"} => HandlersRegistered)
    /\ RequestPending ~> RequestsServiced

(***************************************************************************)
(* C33: channel shutdown does not deadlock.  An orch_ipc_close() of the   *)
(* parent, called from release() or close(), eventually returns, and so   *)
(* does an orch_ipc_close() of the child once the parent has shut its     *)
(* write side down, under fair scheduling.                                 *)
(***************************************************************************)
ParentClosing == ppc \in {"close_ipc", "rel_close"}

ChildClosing == cpc \in {"close_start", "close_drain", "close_pop"}

C33_ShutdownCompletes ==
    /\ ParentClosing ~> ~ParentClosing
    /\ (ChildClosing /\ pShut) ~> ~ChildClosing

\* both endpoints are half-closed and both sides are draining
C33_Witness ==
    /\ ppc = "rel_close"
    /\ cpc = "close_drain"
    /\ pShut
    /\ cShut
    /\ IpcOkay(pipc)
    /\ IpcOkay(cipc)

(***************************************************************************)
(* C34, as stated: orch_ipc_wait() returns at once, without select(),     *)
(* when a message is queued, and returns at once reporting end-of-file     *)
(* when the descriptor has been closed at end-of-file.                     *)
(***************************************************************************)
C34_WaitImmediate ==
    wire.call.op = "wait" =>
        LET w == wire.call.wt
        IN  /\ wire.call.q0 # <<>> => ~w.select /\ wire.call.rc = 0
            /\ w.closed => ~w.select /\ wire.call.rc = 0 /\ w.eof

\* C34, amended: orch_ipc_wait() returns at once, without select(), when a
\* message is queued, and then leaves the end-of-file indication as the
\* caller set it, also when the descriptor has been closed; with the queue
\* empty and the descriptor closed it returns at once reporting
\* end-of-file; with the queue empty and the descriptor open it waits in
\* select() and reports no end-of-file.
C34_WaitQueueFirst ==
    wire.call.op = "wait" =>
        LET w == wire.call.wt
            q == wire.call.q0
        IN  /\ q # <<>> => ~w.select /\ wire.call.rc = 0 /\ w.eof = w.eof0
            /\ (q = <<>> /\ w.closed) =>
                  ~w.select /\ wire.call.rc = 0 /\ w.eof
            /\ (q = <<>> /\ ~w.closed) => w.select /\ ~w.eof

\* a wait with a message queued on a descriptor closed at end-of-file
C34_Witness ==
    /\ wire.call.op = "wait"
    /\ wire.call.q0 # <<>>
    /\ wire.call.wt.closed
    /\ ~wire.call.wt.select
    /\ ~wire.call.wt.eof

\* C35, as stated: after the last orch_ipc_pop() of orch_ipc_close() the
\* receive queue is empty, so the assertion that follows it holds, also
\* when a handler failed in that pop with messages queued behind it.
C35_QueueEmptyAfterFinalPop ==
    wire.call.op = "close" => ~wire.call.abort /\ wire.ipc.q = <<>>

(***************************************************************************)
(* C36: an ERROR the child has sent is not lost.  The first receive the   *)
(* parent makes after the send hands it to orchlua_child_error(), which   *)
(* latches the error flag of the handle, also when the drain of that       *)
(* receive reads the end-of-file behind it and closes the descriptor.      *)
(***************************************************************************)
ErrorInFlight == hist.errSent /\ CountTags(hist.pRx, {IPC_ERROR}) = 0

\* a step in which orch_ipc_recv() of the parent has run
ParentReceives ==
    /\ ppc \in {"spawn_wait", "term_wait", "upd_wait"}
    /\ (ppc' # ppc \/ pipc' # pipc)
    /\ ~(pipc.q = <<>> /\ ~IpcOkay(pipc))

ErrorDispatched ==
    (ErrorInFlight /\ ParentReceives) =>
        /\ proc'.error
        /\ CountTags(hist'.pRx, {IPC_ERROR}) = 1

C36_ErrorNotLost == [][ErrorDispatched]_vars

\* update() has received the ERROR in the receive that closed the
\* descriptor at end-of-file
C36_Witness ==
    /\ ppc = "idle"
    /\ ret.op = "update"
    /\ ~ret.ok
    /\ hist.updates = 1
    /\ hist.reqDone = 2
    /\ proc.error
    /\ proc.ipc # "NULL"
    /\ ~IpcOkay(pipc)
    /\ LastTag(hist.pRx) = IPC_ERROR

\* C37, as stated: when update() has returned a failure, the snapshot of
\* the terminal handle is what it was before the call.
C37_FailedUpdateKeepsSnapshot ==
    (ppc = "idle" /\ ret.op = "update" /\ ~ret.ok) => proc.term = ret.old

\* C38, as stated: when a handler called by orch_ipc_pop() has closed the
\* Channel and returned, the pop does not use the Channel or its queue
\* again.
C38_HandlerMayClose == wire.call.freed = "no"

(***************************************************************************)
(* C39: a release() that has returned has cleared the handle's Channel    *)
(* pointer, whether or not RELEASE was sent, and has set the released     *)
(* flag exactly if it was sent; a released handle holds no Channel, and    *)
(* the parent sends at most one RELEASE.                                   *)
(***************************************************************************)
ReleasesSent == CountTags(hist.pTx, {IPC_RELEASE})

C39_ReleaseOnce ==
    /\ proc.released => proc.ipc = "NULL"
    /\ ReleasesSent <= 1
    /\ proc.released <=> (ReleasesSent = 1 /\ ppc # "rel_close")
    /\ (ppc = "idle" /\ ret.op = "release") =>
          /\ proc.ipc = "NULL"
          /\ hist.ipcFrees = 1
          /\ ret.ok <=> proc.released

\* a release() whose send failed: the Channel is gone, released is not set
C39_Witness ==
    /\ ppc = "idle"
    /\ ret.op = "release"
    /\ ~ret.ok
    /\ proc.ipc = "NULL"
    /\ ~proc.released
    /\ ReleasesSent = 0

====
